---- MODULE Spec2Model ----
(***************************************************************************)
(* Model of the ZIA tool layer of zscaler-mcp-server                       *)
(* (src/zscaler_mcp/tools/zia/*.py).                                       *)
(*                                                                         *)
(* Every tool is a synchronous function: it validates its arguments,       *)
(* possibly passes the confirmation gate, resolves a client and issues a   *)
(* remote operation whose (payload, _, err) answer it maps to a return     *)
(* value or a raised error.  A tool is modelled twice: as an operator of   *)
(* the same name that computes what one invocation does (its outcome, the  *)
(* number of client resolutions, the remote calls it issues, and whether   *)
(* the resolver ran before the invocation was rejected), and as an action  *)
(* Call_<tool> that applies it to arguments drawn from bounded sets and    *)
(* records the effect on the spy client's log.                             *)
(*                                                                         *)
(* Python values are records [t |-> type tag, v |-> content]; a Python     *)
(* string is a sequence of one-character strings, so that json.loads,      *)
(* str.split, str.strip, str.lower and str() are computed on characters.   *)
(***************************************************************************)
EXTENDS Integers, Sequences, FiniteSets, TLC

VARIABLES calls, resolved, last, remaining

vars == <<calls, resolved, last, remaining>>

(***************************************************************************)
(* Bounds of the model.                                                    *)
(***************************************************************************)
\* invocations in one session of the destructive tools
MaxInvocations == 2
\* length of the longest list of URLs given to zia_url_lookup
MaxUrls == 150

(***************************************************************************)
(* Python values.                                                          *)
(***************************************************************************)
PyNone == [t |-> "none", v |-> 0]
PyStr(s) == [t |-> "str", v |-> s]
PyInt(n) == [t |-> "int", v |-> n]
PyBool(b) == [t |-> "bool", v |-> b]
PyList(xs) == [t |-> "list", v |-> xs]
PyTuple(xs) == [t |-> "tuple", v |-> xs]
\* a literal segment of an f-string or of a message
Lit(text) == [t |-> "lit", v |-> text]
\* an f-string, kept as the sequence of its segments
FString(parts) == [t |-> "fstr", v |-> parts]
\* a keyword-argument mapping or a dict, as a TLA+ record
PyDict(rec) == [t |-> "dict", v |-> rec]

isinstance(x, type) == x.t = type

\* Python truthiness, as used by `if x:` and `not x`
Truthy(x) ==
    CASE x.t = "none" -> FALSE
      [] x.t = "bool" -> x.v
      [] x.t = "int" -> x.v # 0
      [] x.t \in {"str", "list", "tuple"} -> x.v # <<>>
      [] OTHER -> TRUE

Digits == <<"0", "1", "2", "3", "4", "5", "6", "7", "8", "9">>
DigitSet == {Digits[i] : i \in 1..10}
DigitVal(c) == (CHOOSE i \in 1..10 : Digits[i] = c) - 1

RECURSIVE IntToChars(_)
IntToChars(n) ==
    IF n < 10 THEN <<Digits[n + 1]>>
    ELSE IntToChars(n \div 10) \o <<Digits[(n % 10) + 1]>>

\* str(x); the text of a container's repr is not spelled out
py_str(x) ==
    CASE x.t = "str" -> x
      [] x.t = "int" -> PyStr(IF x.v < 0 THEN <<"-">> \o IntToChars(0 - x.v) ELSE IntToChars(x.v))
      [] x.t = "none" -> PyStr(<<"N", "o", "n", "e">>)
      [] x.t = "bool" -> PyStr(IF x.v THEN <<"T", "r", "u", "e">> ELSE <<"F", "a", "l", "s", "e">>)
      [] OTHER -> [t |-> "repr", v |-> x]

UpperCase == <<"A", "B", "C", "D", "E", "F", "G", "H", "I", "J", "K", "L", "M",
               "N", "O", "P", "Q", "R", "S", "T", "U", "V", "W", "X", "Y", "Z">>
LowerCase == <<"a", "b", "c", "d", "e", "f", "g", "h", "i", "j", "k", "l", "m",
               "n", "o", "p", "q", "r", "s", "t", "u", "v", "w", "x", "y", "z">>
LowerChar(c) ==
    IF \E i \in 1..26 : UpperCase[i] = c
    THEN LowerCase[CHOOSE i \in 1..26 : UpperCase[i] = c]
    ELSE c
UpperChar(c) ==
    IF \E i \in 1..26 : LowerCase[i] = c
    THEN UpperCase[CHOOSE i \in 1..26 : LowerCase[i] = c]
    ELSE c
\* str.lower() and str.upper()
lower(s) == PyStr([i \in 1..Len(s.v) |-> LowerChar(s.v[i])])
upper(s) == PyStr([i \in 1..Len(s.v) |-> UpperChar(s.v[i])])

(***************************************************************************)
(* json.loads on the characters of a string.  The grammar is JSON's for    *)
(* arrays, strings without escapes, non-negative integers and the          *)
(* literals null, true and false; any other character is a decode error.   *)
(***************************************************************************)
Whitespace == {" "}
JsonFail == [ok |-> FALSE, val |-> PyNone, next |-> 0]
JsonOk(val, next) == [ok |-> TRUE, val |-> val, next |-> next]

RECURSIVE SkipWs(_, _)
SkipWs(s, i) ==
    IF i <= Len(s) /\ s[i] \in Whitespace THEN SkipWs(s, i + 1) ELSE i

\* the literal word w starts at position i of s
StartsWith(s, i, w) ==
    /\ i + Len(w) - 1 <= Len(s)
    /\ \A k \in 1..Len(w) : s[i + k - 1] = w[k]

RECURSIVE ParseJsonString(_, _, _)
ParseJsonString(s, i, acc) ==
    IF i > Len(s) THEN JsonFail
    ELSE IF s[i] = "\"" THEN JsonOk(PyStr(acc), i + 1)
    ELSE ParseJsonString(s, i + 1, Append(acc, s[i]))

RECURSIVE ParseJsonDigits(_, _, _)
ParseJsonDigits(s, i, acc) ==
    IF i <= Len(s) /\ s[i] \in DigitSet
    THEN ParseJsonDigits(s, i + 1, acc * 10 + DigitVal(s[i]))
    ELSE JsonOk(PyInt(acc), i)

RECURSIVE ParseJsonValue(_, _)
RECURSIVE ParseJsonElements(_, _, _)
ParseJsonElements(s, i, acc) ==
    LET r == ParseJsonValue(s, i)
        k == SkipWs(s, r.next)
    IN  IF ~r.ok \/ k > Len(s) THEN JsonFail
        ELSE IF s[k] = "," THEN ParseJsonElements(s, k + 1, Append(acc, r.val))
        ELSE IF s[k] = "]" THEN JsonOk(PyList(Append(acc, r.val)), k + 1)
        ELSE JsonFail

ParseJsonValue(s, i) ==
    LET j == SkipWs(s, i)
    IN  IF j > Len(s) THEN JsonFail
        ELSE IF s[j] = "[" THEN
            LET k == SkipWs(s, j + 1)
            IN  IF k <= Len(s) /\ s[k] = "]" THEN JsonOk(PyList(<<>>), k + 1)
                ELSE ParseJsonElements(s, j + 1, <<>>)
        ELSE IF s[j] = "\"" THEN ParseJsonString(s, j + 1, <<>>)
        ELSE IF s[j] = "0" THEN
            IF j + 1 <= Len(s) /\ s[j + 1] \in DigitSet THEN JsonFail
            ELSE JsonOk(PyInt(0), j + 1)
        ELSE IF s[j] \in DigitSet THEN ParseJsonDigits(s, j, 0)
        ELSE IF StartsWith(s, j, <<"n", "u", "l", "l">>) THEN JsonOk(PyNone, j + 4)
        ELSE IF StartsWith(s, j, <<"t", "r", "u", "e">>) THEN JsonOk(PyBool(TRUE), j + 4)
        ELSE IF StartsWith(s, j, <<"f", "a", "l", "s", "e">>) THEN JsonOk(PyBool(FALSE), j + 5)
        ELSE JsonFail

\* json.loads(text): ok is FALSE where Python raises json.JSONDecodeError
json_loads(text) ==
    LET r == ParseJsonValue(text.v, 1)
    IN  IF r.ok /\ SkipWs(text.v, r.next) > Len(text.v)
        THEN [ok |-> TRUE, val |-> r.val]
        ELSE [ok |-> FALSE, val |-> PyNone]

(***************************************************************************)
(* Built-in operations of Python the tools use.  An operation that can     *)
(* raise gives [ok |-> FALSE, exc |-> the exception] in that case.         *)
(***************************************************************************)
\* len(x): TypeError for a value without a length
py_len(x) ==
    IF x.t \in {"str", "list", "tuple"}
    THEN [ok |-> TRUE, val |-> Len(x.v)]
    ELSE [ok |-> FALSE, exc |-> "TypeError"]

\* x[i] for 0 <= i < len(x); indexing a string gives a one-character string
py_getitem(x, i) == IF x.t = "str" THEN PyStr(<<x.v[i + 1]>>) ELSE x.v[i + 1]

RECURSIVE CharsToInt(_, _)
CharsToInt(s, acc) ==
    IF s = <<>> THEN acc ELSE CharsToInt(Tail(s), acc * 10 + DigitVal(Head(s)))

\* int(x): ValueError for a string that is not a decimal number
py_int(x) ==
    CASE x.t = "int" -> [ok |-> TRUE, val |-> x.v]
      [] x.t = "bool" -> [ok |-> TRUE, val |-> IF x.v THEN 1 ELSE 0]
      [] x.t = "str" ->
            IF x.v # <<>> /\ \A i \in 1..Len(x.v) : x.v[i] \in DigitSet
            THEN [ok |-> TRUE, val |-> CharsToInt(x.v, 0)]
            ELSE [ok |-> FALSE, exc |-> "ValueError"]
      [] OTHER -> [ok |-> FALSE, exc |-> "TypeError"]

\* sep.join(parts) on the characters
RECURSIVE JoinChars(_, _)
JoinChars(sep, parts) ==
    IF parts = <<>> THEN <<>>
    ELSE IF Len(parts) = 1 THEN parts[1]
    ELSE parts[1] \o sep \o JoinChars(sep, Tail(parts))

\* text.split(sep) for a one-character separator: the pieces between separators
RECURSIVE SplitChars(_, _, _, _)
SplitChars(s, sep, piece, acc) ==
    IF s = <<>> THEN Append(acc, piece)
    ELSE IF Head(s) = sep THEN SplitChars(Tail(s), sep, <<>>, Append(acc, piece))
    ELSE SplitChars(Tail(s), sep, Append(piece, Head(s)), acc)

RECURSIVE StripLeft(_)
StripLeft(s) == IF s # <<>> /\ Head(s) \in Whitespace THEN StripLeft(Tail(s)) ELSE s
RECURSIVE StripRight(_)
StripRight(s) ==
    IF s # <<>> /\ s[Len(s)] \in Whitespace THEN StripRight(SubSeq(s, 1, Len(s) - 1)) ELSE s
\* text.strip() on the characters
StripChars(s) == StripRight(StripLeft(s))

\* variant: [u.strip() for u in text.split(",")], blank pieces kept
split_and_strip_blanks_kept(text) ==
    LET pieces == SplitChars(text.v, ",", <<>>, <<>>)
        stripped == [i \in 1..Len(pieces) |-> StripChars(pieces[i])]
    IN  PyList([i \in 1..Len(stripped) |-> PyStr(stripped[i])])

\* variant: [u for u in text.split(",") if u.strip()], pieces kept with their blanks
split_and_strip_untrimmed(text) ==
    LET pieces == SplitChars(text.v, ",", <<>>, <<>>)
        kept == SelectSeq(pieces, LAMBDA p : StripChars(p) # <<>>)
    IN  PyList([i \in 1..Len(kept) |-> PyStr(kept[i])])

\* [u.strip() for u in text.split(",") if u.strip()]
split_and_strip(text) ==
    LET pieces == SplitChars(text.v, ",", <<>>, <<>>)
        stripped == [i \in 1..Len(pieces) |-> StripChars(pieces[i])]
        kept == SelectSeq(stripped, LAMBDA p : p # <<>>)
    IN  PyList([i \in 1..Len(kept) |-> PyStr(kept[i])])

\* a dict or keyword-argument mapping built from <<key, value>> pairs
Kw(pairs) == [k \in {p[1] : p \in pairs} |-> (CHOOSE p \in pairs : p[1] = k)[2]]
\* the entry <<key, value>> if cond holds, no entry otherwise
Entry(cond, key, value) == IF cond THEN {<<key, value>>} ELSE {}
\* `query_params if query_params else None`
DictOrNone(d) == IF DOMAIN d = {} THEN PyNone ELSE PyDict(d)

(***************************************************************************)
(* What one tool invocation does.                                          *)
(***************************************************************************)
\* a normal return of value val
Return(val) == [kind |-> "return", exc |-> "none", val |-> val]
\* `raise exc(msg)`
Raise(exc, msg) == [kind |-> "raise", exc |-> exc, val |-> msg]
\* a value interpolated into an f-string
Fmt(x) == py_str(x)

\* one operation invoked on the client handle, with its arguments
RemoteCall(op, args) == [op |-> op, args |-> args]
\* the outcome of an invocation, the number of get_zscaler_client calls it
\* made and the remote operations it issued, in order
Result(out, nresolved, issued) == [out |-> out, resolved |-> nresolved, calls |-> issued]
\* the invocation ended before get_zscaler_client was reached
Rejected(out) == Result(out, 0, <<>>)
\* the invocation ended after get_zscaler_client and before the remote operation
RejectedAfterResolve(out) == Result(out, 1, <<>>)

\* the (payload, _, err) answer of a remote operation
Response(payload, err) == [payload |-> payload, err |-> err]
\* a resource object returned by the SDK, and its as_dict() mapping
Resource(k) == [t |-> "object", v |-> k]
as_dict(obj) == [t |-> "dict", v |-> obj.v]

(***************************************************************************)
(* The confirmation gate, zscaler_mcp.common.elicitation.  The side        *)
(* channel is the JSON text of the hidden kwargs parameter; it is kept as  *)
(* an opaque text here.                                                    *)
(***************************************************************************)
KwargsDefault == Lit("{}")
KwargsConfirmed == Lit("{\"confirmed\": true}")
KwargsDeclined == Lit("{\"confirmed\": false}")

extract_confirmed_from_kwargs(kwargs) == kwargs = KwargsConfirmed

PendingDescription(operation_name) == [t |-> "pending", v |-> operation_name]

check_confirmation(operation_name, confirmed, context) ==
    IF confirmed THEN PyNone ELSE PendingDescription(operation_name)

(***************************************************************************)
(* network_services.py                                                     *)
(***************************************************************************)
valid_protocols == {<<"I", "C", "M", "P">>, <<"T", "C", "P">>, <<"U", "D", "P">>, <<"G", "R", "E">>, <<"E", "S", "P">>, <<"O", "T", "H", "E", "R">>}

\* [s.as_dict() for s in payload]
as_dict_all(payload) == PyList([i \in 1..Len(payload.v) |-> as_dict(payload.v[i])])

zia_list_network_services(search, protocol, locale, resp) ==
    LET query_params ==
            Kw(Entry(Truthy(search), "search", search)
               \cup Entry(Truthy(protocol), "protocol", upper(protocol))
               \cup Entry(Truthy(locale), "locale", locale))
    IN  IF Truthy(protocol) /\ upper(protocol).v \notin valid_protocols
        THEN RejectedAfterResolve(
                Raise("ValueError", FString(<<Lit("Invalid protocol: "), Fmt(protocol),
                                              Lit(". Supported values: "),
                                              [t |-> "joined", v |-> valid_protocols]>>)))
        ELSE Result(
                IF Truthy(resp.err)
                THEN Raise("Exception", FString(<<Lit("Failed to list network services: "),
                                                  Fmt(resp.err)>>))
                ELSE Return(as_dict_all(resp.payload)),
                1,
                <<RemoteCall("list_network_services",
                             [query_params |-> DictOrNone(query_params)])>>)

\* variant: a failed read is tried once more before the error is raised
zia_get_network_service_retried(service_id, resp) ==
    IF ~Truthy(service_id)
    THEN Rejected(Raise("ValueError", Lit("service_id is required")))
    ELSE Result(
            IF Truthy(resp.err)
            THEN Raise("Exception", FString(<<Lit("Failed to retrieve network service "),
                                              Fmt(service_id), Lit(": "), Fmt(resp.err)>>))
            ELSE Return(as_dict(resp.payload)),
            1,
            IF Truthy(resp.err)
            THEN <<RemoteCall("get_network_service", [arg0 |-> service_id]),
                   RemoteCall("get_network_service", [arg0 |-> service_id])>>
            ELSE <<RemoteCall("get_network_service", [arg0 |-> service_id])>>)

zia_get_network_service(service_id, resp) ==
    IF ~Truthy(service_id)
    THEN Rejected(Raise("ValueError", Lit("service_id is required")))
    ELSE Result(
            IF Truthy(resp.err)
            THEN Raise("Exception", FString(<<Lit("Failed to retrieve network service "),
                                              Fmt(service_id), Lit(": "), Fmt(resp.err)>>))
            ELSE Return(as_dict(resp.payload)),
            1,
            <<RemoteCall("get_network_service", [arg0 |-> service_id])>>)

\* the value a helper returns, or the error it raises
Returned(val) == [ok |-> TRUE, val |-> val]
Raised(out) == [ok |-> FALSE, out |-> out]

\* variant: a string that is not JSON is split on commas
_parse_ports_comma_fallback(ports_input) ==
    IF ports_input = PyNone THEN Returned(PyNone)
    ELSE LET decoded ==
                IF isinstance(ports_input, "str")
                THEN (IF json_loads(ports_input).ok THEN json_loads(ports_input)
                      ELSE [ok |-> TRUE, val |-> split_and_strip(ports_input)])
                ELSE [ok |-> TRUE, val |-> ports_input]
         IN  IF ~isinstance(decoded.val, "list")
             THEN Raised(Raise("ValueError", Lit("ports must be a list of port tuples")))
             ELSE Returned(PyList([i \in 1..Len(decoded.val.v) |->
                        IF isinstance(decoded.val.v[i], "list")
                        THEN PyTuple(decoded.val.v[i].v)
                        ELSE decoded.val.v[i]]))

\* variant: the port definitions are passed on as lists, not as tuples
_parse_ports_lists_kept(ports_input) ==
    IF ports_input = PyNone THEN Returned(PyNone)
    ELSE LET decoded ==
                IF isinstance(ports_input, "str")
                THEN json_loads(ports_input)
                ELSE [ok |-> TRUE, val |-> ports_input]
         IN  IF ~decoded.ok
             THEN Raised(Raise("ValueError", FString(<<Lit("Invalid JSON for ports: "),
                                                       Lit("JSONDecodeError")>>)))
             ELSE IF ~isinstance(decoded.val, "list")
             THEN Raised(Raise("ValueError", Lit("ports must be a list of port tuples")))
             ELSE Returned(decoded.val)

_parse_ports(ports_input) ==
    IF ports_input = PyNone THEN Returned(PyNone)
    ELSE LET decoded ==
                IF isinstance(ports_input, "str")
                THEN json_loads(ports_input)
                ELSE [ok |-> TRUE, val |-> ports_input]
         IN  IF ~decoded.ok
             THEN Raised(Raise("ValueError", FString(<<Lit("Invalid JSON for ports: "),
                                                       Lit("JSONDecodeError")>>)))
             ELSE IF ~isinstance(decoded.val, "list")
             THEN Raised(Raise("ValueError", Lit("ports must be a list of port tuples")))
             ELSE Returned(PyList([i \in 1..Len(decoded.val.v) |->
                        IF isinstance(decoded.val.v[i], "list")
                        THEN PyTuple(decoded.val.v[i].v)
                        ELSE decoded.val.v[i]]))

PortTupleFormat == Lit(". Format: ('src'|'dest', 'tcp'|'udp', 'start_port', 'end_port')")

\* variant: within a port tuple the protocol is checked before the direction
RECURSIVE validate_port_tuples_protocol_first(_, _)
validate_port_tuples_protocol_first(parsed_ports, i) ==
    IF i > Len(parsed_ports) THEN Returned(PyNone)
    ELSE LET port_tuple == parsed_ports[i]
             n == py_len(port_tuple)
         IN  IF ~n.ok THEN Raised(Raise(n.exc, Lit("object has no len()")))
             ELSE IF n.val < 3
             THEN Raised(Raise("ValueError", FString(<<Lit("Invalid port tuple "),
                                                       Fmt(port_tuple), PortTupleFormat>>)))
             ELSE LET direction == py_getitem(port_tuple, 0)
                      protocol == py_getitem(port_tuple, 1)
                  IN  IF ~isinstance(protocol, "str")
                      THEN Raised(Raise("AttributeError", Lit("object has no attribute 'lower'")))
                      ELSE IF lower(protocol) \notin {PyStr(<<"t", "c", "p">>), PyStr(<<"u", "d", "p">>)}
                      THEN Raised(Raise("ValueError", FString(<<Lit("Invalid protocol '"),
                                    Fmt(protocol), Lit("'. Must be 'tcp' or 'udp'.")>>)))
                      ELSE IF direction \notin {PyStr(<<"s", "r", "c">>), PyStr(<<"d", "e", "s", "t">>)}
                      THEN Raised(Raise("ValueError", FString(<<Lit("Invalid direction '"),
                                    Fmt(direction), Lit("'. Must be 'src' or 'dest'.")>>)))
                      ELSE validate_port_tuples_protocol_first(parsed_ports, i + 1)

\* variant: the direction of a port tuple is not checked
RECURSIVE validate_port_tuples_direction_unchecked(_, _)
validate_port_tuples_direction_unchecked(parsed_ports, i) ==
    IF i > Len(parsed_ports) THEN Returned(PyNone)
    ELSE LET port_tuple == parsed_ports[i]
             n == py_len(port_tuple)
         IN  IF ~n.ok THEN Raised(Raise(n.exc, Lit("object has no len()")))
             ELSE IF n.val < 3
             THEN Raised(Raise("ValueError", FString(<<Lit("Invalid port tuple "),
                                                       Fmt(port_tuple), PortTupleFormat>>)))
             ELSE LET protocol == py_getitem(port_tuple, 1)
                  IN  IF ~isinstance(protocol, "str")
                      THEN Raised(Raise("AttributeError", Lit("object has no attribute 'lower'")))
                      ELSE IF lower(protocol) \notin {PyStr(<<"t", "c", "p">>), PyStr(<<"u", "d", "p">>)}
                      THEN Raised(Raise("ValueError", FString(<<Lit("Invalid protocol '"),
                                    Fmt(protocol), Lit("'. Must be 'tcp' or 'udp'.")>>)))
                      ELSE validate_port_tuples_direction_unchecked(parsed_ports, i + 1)

\* the loop `for port_tuple in parsed_ports:` of zia_create_network_service and
\* zia_update_network_service, from its i-th element on
RECURSIVE validate_port_tuples(_, _)
validate_port_tuples(parsed_ports, i) ==
    IF i > Len(parsed_ports) THEN Returned(PyNone)
    ELSE LET port_tuple == parsed_ports[i]
             n == py_len(port_tuple)
         IN  IF ~n.ok THEN Raised(Raise(n.exc, Lit("object has no len()")))
             ELSE IF n.val < 3
             THEN Raised(Raise("ValueError", FString(<<Lit("Invalid port tuple "),
                                                       Fmt(port_tuple), PortTupleFormat>>)))
             ELSE LET direction == py_getitem(port_tuple, 0)
                      protocol == py_getitem(port_tuple, 1)
                  IN  IF direction \notin {PyStr(<<"s", "r", "c">>), PyStr(<<"d", "e", "s", "t">>)}
                      THEN Raised(Raise("ValueError", FString(<<Lit("Invalid direction '"),
                                    Fmt(direction), Lit("'. Must be 'src' or 'dest'.")>>)))
                      ELSE IF ~isinstance(protocol, "str")
                      THEN Raised(Raise("AttributeError", Lit("object has no attribute 'lower'")))
                      ELSE IF lower(protocol) \notin {PyStr(<<"t", "c", "p">>), PyStr(<<"u", "d", "p">>)}
                      THEN Raised(Raise("ValueError", FString(<<Lit("Invalid protocol '"),
                                    Fmt(protocol), Lit("'. Must be 'tcp' or 'udp'.")>>)))
                      ELSE validate_port_tuples(parsed_ports, i + 1)

zia_create_network_service(name, ports, description, resp) ==
    IF ~Truthy(name) THEN Rejected(Raise("ValueError", Lit("name is required")))
    ELSE IF ~Truthy(ports)
    THEN Rejected(Raise("ValueError",
            Lit("ports is required - must specify at least one port definition")))
    ELSE LET parsed == _parse_ports(ports)
         IN  IF ~parsed.ok THEN Rejected(parsed.out)
             ELSE IF ~Truthy(parsed.val)
             THEN Rejected(Raise("ValueError",
                     Lit("ports must contain at least one port definition")))
             ELSE LET checked == validate_port_tuples(parsed.val.v, 1)
                  IN  IF ~checked.ok THEN Rejected(checked.out)
                      ELSE Result(
                              IF Truthy(resp.err)
                              THEN Raise("Exception",
                                         FString(<<Lit("Failed to create network service: "),
                                                   Fmt(resp.err)>>))
                              ELSE Return(as_dict(resp.payload)),
                              1,
                              <<RemoteCall("add_network_service",
                                    Kw({<<"ports", parsed.val>>, <<"name", name>>}
                                       \cup Entry(Truthy(description),
                                                  "description", description)))>>)

\* variant: an update without ports sends an empty list of ports
zia_update_network_service_ports_cleared(service_id, name, ports, description, resp) ==
    IF ~Truthy(service_id) THEN Rejected(Raise("ValueError", Lit("service_id is required")))
    ELSE IF ~Truthy(name)
    THEN Rejected(Raise("ValueError", Lit("name is required for update")))
    ELSE LET parsed == IF Truthy(ports) THEN _parse_ports(ports) ELSE Returned(PyList(<<>>))
         IN  IF ~parsed.ok THEN Rejected(parsed.out)
             ELSE LET checked ==
                          IF Truthy(parsed.val)
                          THEN validate_port_tuples(parsed.val.v, 1)
                          ELSE Returned(PyNone)
                  IN  IF ~checked.ok THEN Rejected(checked.out)
                      ELSE Result(
                              IF Truthy(resp.err)
                              THEN Raise("Exception",
                                         FString(<<Lit("Failed to update network service "),
                                                   Fmt(service_id), Lit(": "),
                                                   Fmt(resp.err)>>))
                              ELSE Return(as_dict(resp.payload)),
                              1,
                              <<RemoteCall("update_network_service",
                                    Kw({<<"service_id", py_str(service_id)>>,
                                        <<"ports", parsed.val>>, <<"name", name>>}
                                       \cup Entry(description # PyNone,
                                                  "description", description)))>>)

zia_update_network_service(service_id, name, ports, description, resp) ==
    IF ~Truthy(service_id) THEN Rejected(Raise("ValueError", Lit("service_id is required")))
    ELSE IF ~Truthy(name)
    THEN Rejected(Raise("ValueError", Lit("name is required for update")))
    ELSE LET parsed == IF Truthy(ports) THEN _parse_ports(ports) ELSE Returned(PyNone)
         IN  IF ~parsed.ok THEN Rejected(parsed.out)
             ELSE LET checked ==
                          IF Truthy(parsed.val)
                          THEN validate_port_tuples(parsed.val.v, 1)
                          ELSE Returned(PyNone)
                  IN  IF ~checked.ok THEN Rejected(checked.out)
                      ELSE Result(
                              IF Truthy(resp.err)
                              THEN Raise("Exception",
                                         FString(<<Lit("Failed to update network service "),
                                                   Fmt(service_id), Lit(": "),
                                                   Fmt(resp.err)>>))
                              ELSE Return(as_dict(resp.payload)),
                              1,
                              <<RemoteCall("update_network_service",
                                    Kw({<<"service_id", py_str(service_id)>>,
                                        <<"ports", parsed.val>>, <<"name", name>>}
                                       \cup Entry(description # PyNone,
                                                  "description", description)))>>)

\* variant: the result of the gate is not looked at
zia_delete_network_service_ungated(service_id, kwargs, resp) ==
    IF ~Truthy(service_id)
    THEN Rejected(Raise("ValueError", Lit("service_id is required for delete")))
    ELSE Result(
            IF Truthy(resp.err)
            THEN Raise("Exception", FString(<<Lit("Failed to delete network service "),
                                              Fmt(service_id), Lit(": "), Fmt(resp.err)>>))
            ELSE Return(FString(<<Lit("Network service "), Fmt(service_id),
                                  Lit(" deleted successfully")>>)),
            1,
            <<RemoteCall("delete_network_service", [arg0 |-> service_id])>>)

zia_delete_network_service(service_id, kwargs, resp) ==
    LET confirmed == extract_confirmed_from_kwargs(kwargs)
        confirmation_check == check_confirmation("zia_delete_network_service", confirmed, <<>>)
    IN  IF Truthy(confirmation_check) THEN Rejected(Return(confirmation_check))
        ELSE IF ~Truthy(service_id)
        THEN Rejected(Raise("ValueError", Lit("service_id is required for delete")))
        ELSE Result(
                IF Truthy(resp.err)
                THEN Raise("Exception", FString(<<Lit("Failed to delete network service "),
                                                  Fmt(service_id), Lit(": "), Fmt(resp.err)>>))
                ELSE Return(FString(<<Lit("Network service "), Fmt(service_id),
                                      Lit(" deleted successfully")>>)),
                1,
                <<RemoteCall("delete_network_service", [arg0 |-> service_id])>>)

(***************************************************************************)
(* network_services_group.py                                               *)
(***************************************************************************)
zia_list_network_svc_groups(search, resp) ==
    LET query_params == Kw(Entry(Truthy(search), "search", search))
    IN  Result(
            IF Truthy(resp.err)
            THEN Raise("Exception", FString(<<Lit("Failed to list network service groups: "),
                                              Fmt(resp.err)>>))
            ELSE Return(as_dict_all(resp.payload)),
            1,
            <<RemoteCall("list_network_svc_groups",
                         [query_params |-> DictOrNone(query_params)])>>)

\* variant: only an absent group_id counts as missing
zia_get_network_svc_group_none_only(group_id, resp) ==
    IF group_id = PyNone
    THEN Rejected(Raise("ValueError", Lit("group_id is required")))
    ELSE Result(
            IF Truthy(resp.err)
            THEN Raise("Exception", FString(<<Lit("Failed to retrieve network service group "),
                                              Fmt(group_id), Lit(": "), Fmt(resp.err)>>))
            ELSE Return(as_dict(resp.payload)),
            1,
            <<RemoteCall("get_network_svc_group", [arg0 |-> group_id])>>)

zia_get_network_svc_group(group_id, resp) ==
    IF ~Truthy(group_id)
    THEN Rejected(Raise("ValueError", Lit("group_id is required")))
    ELSE Result(
            IF Truthy(resp.err)
            THEN Raise("Exception", FString(<<Lit("Failed to retrieve network service group "),
                                              Fmt(group_id), Lit(": "), Fmt(resp.err)>>))
            ELSE Return(as_dict(resp.payload)),
            1,
            <<RemoteCall("get_network_svc_group", [arg0 |-> group_id])>>)

\* variant: the elements of the list are returned as they were given
_parse_service_ids_as_given(service_ids_input) ==
    IF service_ids_input = PyNone THEN Returned(PyNone)
    ELSE LET decoded ==
                IF isinstance(service_ids_input, "str")
                THEN json_loads(service_ids_input)
                ELSE [ok |-> TRUE, val |-> service_ids_input]
         IN  IF ~decoded.ok
             THEN Raised(Raise("ValueError", FString(<<Lit("Invalid JSON for service_ids: "),
                                                       Lit("JSONDecodeError")>>)))
             ELSE IF ~isinstance(decoded.val, "list")
             THEN Raised(Raise("ValueError",
                        Lit("service_ids must be a list of network service IDs")))
             ELSE Returned(decoded.val)

_parse_service_ids(service_ids_input) ==
    IF service_ids_input = PyNone THEN Returned(PyNone)
    ELSE LET decoded ==
                IF isinstance(service_ids_input, "str")
                THEN json_loads(service_ids_input)
                ELSE [ok |-> TRUE, val |-> service_ids_input]
         IN  IF ~decoded.ok
             THEN Raised(Raise("ValueError", FString(<<Lit("Invalid JSON for service_ids: "),
                                                       Lit("JSONDecodeError")>>)))
             ELSE IF ~isinstance(decoded.val, "list")
             THEN Raised(Raise("ValueError",
                        Lit("service_ids must be a list of network service IDs")))
             ELSE Returned(PyList([i \in 1..Len(decoded.val.v) |-> py_str(decoded.val.v[i])]))

zia_create_network_svc_group(name, service_ids, description, resp) ==
    IF ~Truthy(name) THEN Rejected(Raise("ValueError", Lit("name is required")))
    ELSE IF ~Truthy(service_ids)
    THEN Rejected(Raise("ValueError",
            Lit("service_ids is required - must specify at least one network service ID")))
    ELSE LET parsed == _parse_service_ids(service_ids)
         IN  IF ~parsed.ok THEN Rejected(parsed.out)
             ELSE IF ~Truthy(parsed.val)
             THEN Rejected(Raise("ValueError",
                     Lit("service_ids must contain at least one network service ID")))
             ELSE Result(
                     IF Truthy(resp.err)
                     THEN Raise("Exception",
                                FString(<<Lit("Failed to create network service group: "),
                                          Fmt(resp.err)>>))
                     ELSE Return(as_dict(resp.payload)),
                     1,
                     <<RemoteCall("add_network_svc_group",
                           Kw({<<"name", name>>, <<"service_ids", parsed.val>>}
                              \cup Entry(Truthy(description), "description", description)))>>)

zia_update_network_svc_group(group_id, name, service_ids, description, resp) ==
    IF ~Truthy(group_id) THEN Rejected(Raise("ValueError", Lit("group_id is required")))
    ELSE IF ~Truthy(name)
    THEN Rejected(Raise("ValueError", Lit("name is required for update")))
    ELSE LET parsed ==
                IF Truthy(service_ids) THEN _parse_service_ids(service_ids)
                ELSE Returned(PyNone)
             id == py_int(group_id)
         IN  IF ~parsed.ok THEN Rejected(parsed.out)
             \* int(group_id) is evaluated after get_zscaler_client, as the
             \* argument of the remote operation
             ELSE IF ~id.ok
             THEN RejectedAfterResolve(Raise(id.exc, Lit("invalid literal for int()")))
             ELSE Result(
                     IF Truthy(resp.err)
                     THEN Raise("Exception",
                                FString(<<Lit("Failed to update network service group "),
                                          Fmt(group_id), Lit(": "), Fmt(resp.err)>>))
                     ELSE Return(as_dict(resp.payload)),
                     1,
                     <<RemoteCall("update_network_svc_group",
                           Kw({<<"group_id", PyInt(id.val)>>, <<"name", name>>}
                              \cup Entry(parsed.val # PyNone, "service_ids", parsed.val)
                              \cup Entry(description # PyNone,
                                         "description", description)))>>)

\* variant: a group whose deletion was confirmed once stays confirmed
zia_delete_network_svc_group_remembered(group_id, kwargs, resp) ==
    LET confirmed ==
            \/ extract_confirmed_from_kwargs(kwargs)
            \/ \E i \in DOMAIN calls :
                    calls[i] = RemoteCall("delete_network_svc_group", [arg0 |-> group_id])
        confirmation_check == check_confirmation("zia_delete_network_svc_group", confirmed, <<>>)
    IN  IF Truthy(confirmation_check) THEN Rejected(Return(confirmation_check))
        ELSE IF ~Truthy(group_id)
        THEN Rejected(Raise("ValueError", Lit("group_id is required for delete")))
        ELSE Result(
                IF Truthy(resp.err)
                THEN Raise("Exception", FString(<<Lit("Failed to delete network service group "),
                                                  Fmt(group_id), Lit(": "), Fmt(resp.err)>>))
                ELSE Return(FString(<<Lit("Network service group "), Fmt(group_id),
                                      Lit(" deleted successfully")>>)),
                1,
                <<RemoteCall("delete_network_svc_group", [arg0 |-> group_id])>>)

\* variant: the success status does not say which group was deleted
zia_delete_network_svc_group_unnamed(group_id, kwargs, resp) ==
    LET confirmed == extract_confirmed_from_kwargs(kwargs)
        confirmation_check == check_confirmation("zia_delete_network_svc_group", confirmed, <<>>)
    IN  IF Truthy(confirmation_check) THEN Rejected(Return(confirmation_check))
        ELSE IF ~Truthy(group_id)
        THEN Rejected(Raise("ValueError", Lit("group_id is required for delete")))
        ELSE Result(
                IF Truthy(resp.err)
                THEN Raise("Exception", FString(<<Lit("Failed to delete network service group "),
                                                  Fmt(group_id), Lit(": "), Fmt(resp.err)>>))
                ELSE Return(FString(<<Lit("Network service group deleted successfully")>>)),
                1,
                <<RemoteCall("delete_network_svc_group", [arg0 |-> group_id])>>)

zia_delete_network_svc_group(group_id, kwargs, resp) ==
    LET confirmed == extract_confirmed_from_kwargs(kwargs)
        confirmation_check == check_confirmation("zia_delete_network_svc_group", confirmed, <<>>)
    IN  IF Truthy(confirmation_check) THEN Rejected(Return(confirmation_check))
        ELSE IF ~Truthy(group_id)
        THEN Rejected(Raise("ValueError", Lit("group_id is required for delete")))
        ELSE Result(
                IF Truthy(resp.err)
                THEN Raise("Exception", FString(<<Lit("Failed to delete network service group "),
                                                  Fmt(group_id), Lit(": "), Fmt(resp.err)>>))
                ELSE Return(FString(<<Lit("Network service group "), Fmt(group_id),
                                      Lit(" deleted successfully")>>)),
                1,
                <<RemoteCall("delete_network_svc_group", [arg0 |-> group_id])>>)

(***************************************************************************)
(* device_management.py                                                    *)
(***************************************************************************)
zia_list_device_groups(include_device_info, include_pseudo_groups, resp) ==
    LET query_params ==
            Kw(Entry(include_device_info # PyNone, "includeDeviceInfo", include_device_info)
               \cup Entry(include_pseudo_groups # PyNone,
                          "includePseudoGroups", include_pseudo_groups))
    IN  Result(
            IF Truthy(resp.err)
            THEN Raise("Exception", FString(<<Lit("Failed to list device groups: "),
                                              Fmt(resp.err)>>))
            ELSE Return(as_dict_all(resp.payload)),
            1,
            <<RemoteCall("list_device_groups",
                         [query_params |-> DictOrNone(query_params)])>>)

MaxPageSize == 1000

\* variant: while a page comes back full, the next page is fetched as well
zia_list_devices_all_pages(name, user_ids, include_all, page, page_size, resp) ==
    LET decoded ==
            IF isinstance(user_ids, "str") THEN json_loads(user_ids)
            ELSE [ok |-> TRUE, val |-> user_ids]
        joined ==
            PyStr(JoinChars(<<",">>, [i \in 1..Len(decoded.val.v) |->
                                        py_str(decoded.val.v[i]).v]))
        query_params ==
            Kw(Entry(Truthy(name), "name", name)
               \cup Entry(user_ids # PyNone, "userIds", joined)
               \cup Entry(include_all # PyNone, "includeAll", include_all)
               \cup Entry(page # PyNone, "page", page)
               \cup Entry(page_size # PyNone, "pageSize", page_size))
    IN  IF user_ids # PyNone /\ ~decoded.ok
        THEN RejectedAfterResolve(
                Raise("ValueError", FString(<<Lit("Invalid JSON for user_ids: "),
                                              Lit("JSONDecodeError")>>)))
        ELSE IF user_ids # PyNone /\ ~isinstance(decoded.val, "list")
        THEN RejectedAfterResolve(
                Raise("ValueError", Lit("user_ids must be a list of user ID strings")))
        ELSE IF page # PyNone /\ page.v < 1
        THEN RejectedAfterResolve(Raise("ValueError", Lit("page must be 1 or greater")))
        ELSE IF page_size # PyNone /\ (page_size.v < 1 \/ page_size.v > MaxPageSize)
        THEN RejectedAfterResolve(
                Raise("ValueError", Lit("page_size must be between 1 and 1000")))
        ELSE Result(
                IF Truthy(resp.err)
                THEN Raise("Exception", FString(<<Lit("Failed to list devices: "),
                                                  Fmt(resp.err)>>))
                ELSE Return(as_dict_all(resp.payload)),
                1,
                IF ~Truthy(resp.err) /\ page_size # PyNone /\ Len(resp.payload.v) >= page_size.v
                THEN <<RemoteCall("list_devices", [query_params |-> DictOrNone(query_params)]),
                       RemoteCall("list_devices",
                           [query_params |-> PyDict([page |-> PyInt(IF page = PyNone THEN 2
                                                                       ELSE page.v + 1)]
                                                    @@ query_params)])>>
                ELSE <<RemoteCall("list_devices",
                                  [query_params |-> DictOrNone(query_params)])>>)

\* variant: page_size has no upper limit
zia_list_devices_page_size_unbounded(name, user_ids, include_all, page, page_size, resp) ==
    LET decoded ==
            IF isinstance(user_ids, "str") THEN json_loads(user_ids)
            ELSE [ok |-> TRUE, val |-> user_ids]
        joined ==
            PyStr(JoinChars(<<",">>, [i \in 1..Len(decoded.val.v) |->
                                        py_str(decoded.val.v[i]).v]))
        query_params ==
            Kw(Entry(Truthy(name), "name", name)
               \cup Entry(user_ids # PyNone, "userIds", joined)
               \cup Entry(include_all # PyNone, "includeAll", include_all)
               \cup Entry(page # PyNone, "page", page)
               \cup Entry(page_size # PyNone, "pageSize", page_size))
    IN  IF user_ids # PyNone /\ ~decoded.ok
        THEN RejectedAfterResolve(
                Raise("ValueError", FString(<<Lit("Invalid JSON for user_ids: "),
                                              Lit("JSONDecodeError")>>)))
        ELSE IF user_ids # PyNone /\ ~isinstance(decoded.val, "list")
        THEN RejectedAfterResolve(
                Raise("ValueError", Lit("user_ids must be a list of user ID strings")))
        ELSE IF page # PyNone /\ page.v < 1
        THEN RejectedAfterResolve(Raise("ValueError", Lit("page must be 1 or greater")))
        ELSE IF page_size # PyNone /\ page_size.v < 1
        THEN RejectedAfterResolve(
                Raise("ValueError", Lit("page_size must be between 1 and 1000")))
        ELSE Result(
                IF Truthy(resp.err)
                THEN Raise("Exception", FString(<<Lit("Failed to list devices: "),
                                                  Fmt(resp.err)>>))
                ELSE Return(as_dict_all(resp.payload)),
                1,
                <<RemoteCall("list_devices",
                             [query_params |-> DictOrNone(query_params)])>>)

\* variant: userIds is sent even when user_ids was not given
zia_list_devices_user_ids_always(name, user_ids, include_all, page, page_size, resp) ==
    LET decoded ==
            IF isinstance(user_ids, "str") THEN json_loads(user_ids)
            ELSE [ok |-> TRUE, val |-> user_ids]
        joined ==
            PyStr(JoinChars(<<",">>, [i \in 1..Len(decoded.val.v) |->
                                        py_str(decoded.val.v[i]).v]))
        query_params ==
            Kw(Entry(Truthy(name), "name", name)
               \cup Entry(TRUE, "userIds", IF user_ids = PyNone THEN PyStr(<<>>) ELSE joined)
               \cup Entry(include_all # PyNone, "includeAll", include_all)
               \cup Entry(page # PyNone, "page", page)
               \cup Entry(page_size # PyNone, "pageSize", page_size))
    IN  IF user_ids # PyNone /\ ~decoded.ok
        THEN RejectedAfterResolve(
                Raise("ValueError", FString(<<Lit("Invalid JSON for user_ids: "),
                                              Lit("JSONDecodeError")>>)))
        ELSE IF user_ids # PyNone /\ ~isinstance(decoded.val, "list")
        THEN RejectedAfterResolve(
                Raise("ValueError", Lit("user_ids must be a list of user ID strings")))
        ELSE IF page # PyNone /\ page.v < 1
        THEN RejectedAfterResolve(Raise("ValueError", Lit("page must be 1 or greater")))
        ELSE IF page_size # PyNone /\ (page_size.v < 1 \/ page_size.v > MaxPageSize)
        THEN RejectedAfterResolve(
                Raise("ValueError", Lit("page_size must be between 1 and 1000")))
        ELSE Result(
                IF Truthy(resp.err)
                THEN Raise("Exception", FString(<<Lit("Failed to list devices: "),
                                                  Fmt(resp.err)>>))
                ELSE Return(as_dict_all(resp.payload)),
                1,
                <<RemoteCall("list_devices",
                             [query_params |-> DictOrNone(query_params)])>>)

zia_list_devices(name, user_ids, include_all, page, page_size, resp) ==
    LET decoded ==
            IF isinstance(user_ids, "str") THEN json_loads(user_ids)
            ELSE [ok |-> TRUE, val |-> user_ids]
        joined ==
            PyStr(JoinChars(<<",">>, [i \in 1..Len(decoded.val.v) |->
                                        py_str(decoded.val.v[i]).v]))
        query_params ==
            Kw(Entry(Truthy(name), "name", name)
               \cup Entry(user_ids # PyNone, "userIds", joined)
               \cup Entry(include_all # PyNone, "includeAll", include_all)
               \cup Entry(page # PyNone, "page", page)
               \cup Entry(page_size # PyNone, "pageSize", page_size))
    IN  IF user_ids # PyNone /\ ~decoded.ok
        THEN RejectedAfterResolve(
                Raise("ValueError", FString(<<Lit("Invalid JSON for user_ids: "),
                                              Lit("JSONDecodeError")>>)))
        ELSE IF user_ids # PyNone /\ ~isinstance(decoded.val, "list")
        THEN RejectedAfterResolve(
                Raise("ValueError", Lit("user_ids must be a list of user ID strings")))
        ELSE IF page # PyNone /\ page.v < 1
        THEN RejectedAfterResolve(Raise("ValueError", Lit("page must be 1 or greater")))
        ELSE IF page_size # PyNone /\ (page_size.v < 1 \/ page_size.v > MaxPageSize)
        THEN RejectedAfterResolve(
                Raise("ValueError", Lit("page_size must be between 1 and 1000")))
        ELSE Result(
                IF Truthy(resp.err)
                THEN Raise("Exception", FString(<<Lit("Failed to list devices: "),
                                                  Fmt(resp.err)>>))
                ELSE Return(as_dict_all(resp.payload)),
                1,
                <<RemoteCall("list_devices",
                             [query_params |-> DictOrNone(query_params)])>>)

\* variant: a device that was already listed is left out
zia_list_devices_lite_deduplicated(resp) ==
    LET devices == resp.payload.v
        firsts == SelectSeq([i \in 1..Len(devices) |-> i],
                            LAMBDA i : \A j \in 1..(i - 1) : devices[j] # devices[i])
    IN  Result(
            IF Truthy(resp.err)
            THEN Raise("Exception", FString(<<Lit("Failed to list devices (lite): "),
                                              Fmt(resp.err)>>))
            ELSE Return(PyList([k \in 1..Len(firsts) |-> as_dict(devices[firsts[k]])])),
            1,
            <<RemoteCall("list_device_lite", <<>>)>>)

zia_list_devices_lite(resp) ==
    Result(
        IF Truthy(resp.err)
        THEN Raise("Exception", FString(<<Lit("Failed to list devices (lite): "),
                                          Fmt(resp.err)>>))
        ELSE Return(as_dict_all(resp.payload)),
        1,
        <<RemoteCall("list_device_lite", <<>>)>>)

(***************************************************************************)
(* network_apps.py                                                         *)
(***************************************************************************)
valid_locales == {<<"e", "n", "-", "U", "S">>, <<"d", "e", "-", "D", "E">>, <<"e", "s", "-", "E", "S">>, <<"f", "r", "-", "F", "R">>, <<"j", "a", "-", "J", "P">>, <<"z", "h", "-", "C", "N">>}

\* variant: the locale is validated after the list has been fetched
zia_list_network_apps_validated_late(search, locale, resp) ==
    LET query_params ==
            Kw(Entry(Truthy(search), "search", search)
               \cup Entry(Truthy(locale), "locale", locale))
        call == RemoteCall("list_network_apps", [query_params |-> DictOrNone(query_params)])
    IN  IF Truthy(locale) /\ locale.v \notin valid_locales
        THEN Result(
                Raise("ValueError", FString(<<Lit("Invalid locale: "), Fmt(locale),
                                              Lit(". Supported values: "),
                                              [t |-> "joined", v |-> valid_locales]>>)),
                1, <<call>>)
        ELSE Result(
                IF Truthy(resp.err)
                THEN Raise("Exception", FString(<<Lit("Failed to list network applications: "),
                                                  Fmt(resp.err)>>))
                ELSE Return(as_dict_all(resp.payload)),
                1, <<call>>)

\* variant: a missing locale is sent as en-US
zia_list_network_apps_default_locale(search, locale, resp) ==
    LET query_params ==
            Kw(Entry(Truthy(search), "search", search)
               \cup {<<"locale", IF Truthy(locale) THEN locale ELSE PyStr(<<"e", "n", "-", "U", "S">>)>>})
    IN  IF Truthy(locale) /\ locale.v \notin valid_locales
        THEN RejectedAfterResolve(
                Raise("ValueError", FString(<<Lit("Invalid locale: "), Fmt(locale),
                                              Lit(". Supported values: "),
                                              [t |-> "joined", v |-> valid_locales]>>)))
        ELSE Result(
                IF Truthy(resp.err)
                THEN Raise("Exception", FString(<<Lit("Failed to list network applications: "),
                                                  Fmt(resp.err)>>))
                ELSE Return(as_dict_all(resp.payload)),
                1,
                <<RemoteCall("list_network_apps",
                             [query_params |-> DictOrNone(query_params)])>>)

zia_list_network_apps(search, locale, resp) ==
    LET query_params ==
            Kw(Entry(Truthy(search), "search", search)
               \cup Entry(Truthy(locale), "locale", locale))
    IN  IF Truthy(locale) /\ locale.v \notin valid_locales
        THEN RejectedAfterResolve(
                Raise("ValueError", FString(<<Lit("Invalid locale: "), Fmt(locale),
                                              Lit(". Supported values: "),
                                              [t |-> "joined", v |-> valid_locales]>>)))
        ELSE Result(
                IF Truthy(resp.err)
                THEN Raise("Exception", FString(<<Lit("Failed to list network applications: "),
                                                  Fmt(resp.err)>>))
                ELSE Return(as_dict_all(resp.payload)),
                1,
                <<RemoteCall("list_network_apps",
                             [query_params |-> DictOrNone(query_params)])>>)

\* variant: the client is resolved before app_id is checked
zia_get_network_app_resolved_first(app_id, resp) ==
    IF ~Truthy(app_id)
    THEN RejectedAfterResolve(Raise("ValueError", Lit("app_id is required")))
    ELSE Result(
            IF Truthy(resp.err)
            THEN Raise("Exception", FString(<<Lit("Failed to retrieve network application "),
                                              Fmt(app_id), Lit(": "), Fmt(resp.err)>>))
            ELSE Return(as_dict(resp.payload)),
            1,
            <<RemoteCall("get_network_app", [arg0 |-> app_id])>>)

zia_get_network_app(app_id, resp) ==
    IF ~Truthy(app_id)
    THEN Rejected(Raise("ValueError", Lit("app_id is required")))
    ELSE Result(
            IF Truthy(resp.err)
            THEN Raise("Exception", FString(<<Lit("Failed to retrieve network application "),
                                              Fmt(app_id), Lit(": "), Fmt(resp.err)>>))
            ELSE Return(as_dict(resp.payload)),
            1,
            <<RemoteCall("get_network_app", [arg0 |-> app_id])>>)

(***************************************************************************)
(* cloud_app_control.py                                                    *)
(***************************************************************************)
\* a string argument decoded as JSON or, if it is not JSON, split on commas
decode_or_split(value) ==
    IF isinstance(value, "str")
    THEN (IF json_loads(value).ok THEN json_loads(value).val ELSE split_and_strip(value))
    ELSE value

zia_list_cloud_app_control_actions(rule_type, cloud_apps, resp) ==
    LET apps == decode_or_split(cloud_apps)
    IN  IF ~isinstance(apps, "list")
        THEN Rejected(Raise("ValueError",
                Lit("cloud_apps must be a list of cloud application names or a JSON string")))
        ELSE IF ~Truthy(apps)
        THEN Rejected(Raise("ValueError", Lit("cloud_apps cannot be empty")))
        ELSE Result(
                IF Truthy(resp.err)
                THEN Raise("Exception",
                           FString(<<Lit("Failed to list available Cloud App Control actions: "),
                                     Fmt(resp.err)>>))
                ELSE Return(IF Truthy(resp.payload) THEN resp.payload ELSE PyList(<<>>)),
                1,
                <<RemoteCall("list_available_actions",
                             [rule_type |-> rule_type, cloud_apps |-> apps])>>)

(***************************************************************************)
(* url_categories.py                                                       *)
(***************************************************************************)
\* variant: a listing already fetched with the same parameters is answered from memory
zia_list_url_categories_cached(query_params, resp) ==
    LET call == RemoteCall("list_categories",
                           [query_params |-> IF Truthy(query_params) THEN query_params
                                             ELSE PyDict(<<>>)])
        cached == \E i \in DOMAIN calls : calls[i] = call
    IN  Result(
            IF Truthy(resp.err)
            THEN Raise("Exception", FString(<<Lit("List failed: "), Fmt(resp.err)>>))
            ELSE Return(as_dict_all(resp.payload)),
            IF cached THEN 0 ELSE 1,
            IF cached THEN <<>> ELSE <<call>>)

zia_list_url_categories(query_params, resp) ==
    Result(
        IF Truthy(resp.err)
        THEN Raise("Exception", FString(<<Lit("List failed: "), Fmt(resp.err)>>))
        ELSE Return(as_dict_all(resp.payload)),
        1,
        <<RemoteCall("list_categories",
                     [query_params |-> IF Truthy(query_params) THEN query_params
                                       ELSE PyDict(<<>>)])>>)

\* one entry of the lookup result as a dict
lookup_entry(r) ==
    IF r.t = "object" THEN as_dict(r)
    ELSE IF r.t = "dict" THEN r
    ELSE IF r.t \in {"list", "tuple"} THEN [t |-> "dict", v |-> r.v]
    ELSE PyDict([url |-> py_str(r), raw |-> r])

\* variant: the URLs are looked up a hundred at a time, one call per batch
zia_url_lookup_batched(urls, resp) ==
    LET decoded == decode_or_split(urls)
        batches == (Len(decoded.v) + 99) \div 100
        batch(k) == PyList(SubSeq(decoded.v, 100 * (k - 1) + 1,
                                  IF 100 * k < Len(decoded.v) THEN 100 * k ELSE Len(decoded.v)))
    IN  IF ~isinstance(decoded, "list")
        THEN Rejected(Raise("ValueError",
                Lit("urls must be a list of URL strings or a JSON string")))
        ELSE IF ~Truthy(decoded)
        THEN Rejected(Raise("ValueError", Lit("urls cannot be empty")))
        ELSE Result(
                IF Truthy(resp.err)
                THEN Raise("Exception", FString(<<Lit("URL lookup failed: "), Fmt(resp.err)>>))
                ELSE Return(PyList([i \in 1..Len(resp.payload.v) |->
                                        lookup_entry(resp.payload.v[i])])),
                1,
                [k \in 1..batches |-> RemoteCall("lookup", [urls |-> batch(k)])])

zia_url_lookup(urls, resp) ==
    LET decoded == decode_or_split(urls)
    IN  IF ~isinstance(decoded, "list")
        THEN Rejected(Raise("ValueError",
                Lit("urls must be a list of URL strings or a JSON string")))
        ELSE IF ~Truthy(decoded)
        THEN Rejected(Raise("ValueError", Lit("urls cannot be empty")))
        ELSE Result(
                IF Truthy(resp.err)
                THEN Raise("Exception", FString(<<Lit("URL lookup failed: "), Fmt(resp.err)>>))
                ELSE Return(PyList([i \in 1..Len(resp.payload.v) |->
                                        lookup_entry(resp.payload.v[i])])),
                1,
                <<RemoteCall("lookup", [urls |-> decoded])>>)

zia_get_url_category(category_id, resp) ==
    IF ~Truthy(category_id)
    THEN Rejected(Raise("ValueError", Lit("category_id is required")))
    ELSE Result(
            IF Truthy(resp.err)
            THEN Raise("Exception", FString(<<Lit("Read failed: "), Fmt(resp.err)>>))
            ELSE Return(as_dict(resp.payload)),
            1,
            <<RemoteCall("get_category", [category_id |-> category_id])>>)

\* the optional fields of a URL category that go into the payload when truthy
optional_category_fields(urls, description, keywords, ip_ranges, db_categorized_urls, keywords_retaining_parent_category, ip_ranges_retaining_parent_category) ==
    Entry(Truthy(urls), "urls", urls)
    \cup Entry(Truthy(description), "description", description)
    \cup Entry(Truthy(keywords), "keywords", keywords)
    \cup Entry(Truthy(ip_ranges), "ip_ranges", ip_ranges)
    \cup Entry(Truthy(db_categorized_urls), "db_categorized_urls", db_categorized_urls)
    \cup Entry(Truthy(keywords_retaining_parent_category),
               "keywords_retaining_parent_category", keywords_retaining_parent_category)
    \cup Entry(Truthy(ip_ranges_retaining_parent_category),
               "ip_ranges_retaining_parent_category", ip_ranges_retaining_parent_category)

zia_create_url_category(configured_name, super_category, urls, description, custom_category, keywords, ip_ranges, db_categorized_urls, keywords_retaining_parent_category, ip_ranges_retaining_parent_category, resp) ==
    IF ~Truthy(configured_name) \/ ~Truthy(super_category)
    THEN Rejected(Raise("ValueError",
            Lit("configured_name and super_category are required for creation")))
    ELSE Result(
            IF Truthy(resp.err)
            THEN Raise("Exception", FString(<<Lit("Create failed: "), Fmt(resp.err)>>))
            ELSE Return(as_dict(resp.payload)),
            1,
            <<RemoteCall("add_url_category",
                  Kw({<<"configured_name", configured_name>>,
                      <<"super_category", super_category>>,
                      <<"custom_category", custom_category>>}
                     \cup optional_category_fields(urls, description, keywords, ip_ranges,
                              db_categorized_urls, keywords_retaining_parent_category,
                              ip_ranges_retaining_parent_category)))>>)

zia_update_url_category(category_id, configured_name, urls, description, keywords, ip_ranges, db_categorized_urls, keywords_retaining_parent_category, ip_ranges_retaining_parent_category, resp) ==
    IF ~Truthy(category_id) \/ ~Truthy(configured_name)
    THEN Rejected(Raise("ValueError",
            Lit("category_id and configured_name are required for full update")))
    ELSE Result(
            IF Truthy(resp.err)
            THEN Raise("Exception", FString(<<Lit("Update failed: "), Fmt(resp.err)>>))
            ELSE Return(as_dict(resp.payload)),
            1,
            <<RemoteCall("update_url_category",
                  Kw({<<"category_id", category_id>>,
                      <<"configured_name", configured_name>>}
                     \cup optional_category_fields(urls, description, keywords, ip_ranges,
                              db_categorized_urls, keywords_retaining_parent_category,
                              ip_ranges_retaining_parent_category)))>>)

\* variant: the URLs are sent as one comma-separated text, as user_ids are
zia_add_urls_to_category_joined(category_id, configured_name, urls, resp) ==
    IF ~Truthy(category_id) \/ ~Truthy(configured_name) \/ ~Truthy(urls)
    THEN Rejected(Raise("ValueError",
            Lit("category_id, configured_name, and urls are required for adding URLs")))
    ELSE Result(
            IF Truthy(resp.err)
            THEN Raise("Exception", FString(<<Lit("Add URLs failed: "), Fmt(resp.err)>>))
            ELSE Return(as_dict(resp.payload)),
            1,
            <<RemoteCall("add_urls_to_category",
                         [category_id |-> category_id,
                          configured_name |-> configured_name,
                          urls |-> IF isinstance(urls, "list")
                                   THEN PyStr(JoinChars(<<",">>,
                                            [i \in 1..Len(urls.v) |-> py_str(urls.v[i]).v]))
                                   ELSE urls])>>)

zia_add_urls_to_category(category_id, configured_name, urls, resp) ==
    IF ~Truthy(category_id) \/ ~Truthy(configured_name) \/ ~Truthy(urls)
    THEN Rejected(Raise("ValueError",
            Lit("category_id, configured_name, and urls are required for adding URLs")))
    ELSE Result(
            IF Truthy(resp.err)
            THEN Raise("Exception", FString(<<Lit("Add URLs failed: "), Fmt(resp.err)>>))
            ELSE Return(as_dict(resp.payload)),
            1,
            <<RemoteCall("add_urls_to_category",
                         [category_id |-> category_id,
                          configured_name |-> configured_name,
                          urls |-> urls])>>)

\* variant: the required-field check leaves urls out
zia_remove_urls_from_category_urls_unchecked(category_id, configured_name, urls, kwargs, resp) ==
    LET confirmed == extract_confirmed_from_kwargs(kwargs)
        confirmation_check == check_confirmation("zia_remove_urls_from_category", confirmed, <<>>)
    IN  IF Truthy(confirmation_check) THEN Rejected(Return(confirmation_check))
        ELSE IF ~Truthy(category_id) \/ ~Truthy(configured_name)
        THEN Rejected(Raise("ValueError",
                Lit("category_id, configured_name, and urls are required for removing URLs")))
        ELSE Result(
                IF Truthy(resp.err)
                THEN Raise("Exception", FString(<<Lit("Remove URLs failed: "), Fmt(resp.err)>>))
                ELSE Return(as_dict(resp.payload)),
                1,
                <<RemoteCall("delete_urls_from_category",
                             [category_id |-> category_id,
                              configured_name |-> configured_name,
                              urls |-> urls])>>)

zia_remove_urls_from_category(category_id, configured_name, urls, kwargs, resp) ==
    LET confirmed == extract_confirmed_from_kwargs(kwargs)
        confirmation_check == check_confirmation("zia_remove_urls_from_category", confirmed, <<>>)
    IN  IF Truthy(confirmation_check) THEN Rejected(Return(confirmation_check))
        ELSE IF ~Truthy(category_id) \/ ~Truthy(configured_name) \/ ~Truthy(urls)
        THEN Rejected(Raise("ValueError",
                Lit("category_id, configured_name, and urls are required for removing URLs")))
        ELSE Result(
                IF Truthy(resp.err)
                THEN Raise("Exception", FString(<<Lit("Remove URLs failed: "), Fmt(resp.err)>>))
                ELSE Return(as_dict(resp.payload)),
                1,
                <<RemoteCall("delete_urls_from_category",
                             [category_id |-> category_id,
                              configured_name |-> configured_name,
                              urls |-> urls])>>)

\* variant: a category already asked to be deleted is not deleted again
zia_delete_url_category_deduplicated(category_id, kwargs, resp) ==
    LET confirmed == extract_confirmed_from_kwargs(kwargs)
        confirmation_check == check_confirmation("zia_delete_url_category", confirmed, <<>>)
        call == RemoteCall("delete_category", [category_id |-> category_id])
    IN  IF Truthy(confirmation_check) THEN Rejected(Return(confirmation_check))
        ELSE IF ~Truthy(category_id)
        THEN Rejected(Raise("ValueError", Lit("category_id is required for deletion")))
        ELSE IF \E i \in DOMAIN calls : calls[i] = call
        THEN Result(Return(FString(<<Lit("Deleted URL category "), Fmt(category_id)>>)), 1, <<>>)
        ELSE Result(
                IF Truthy(resp.err)
                THEN Raise("Exception", FString(<<Lit("Delete failed: "), Fmt(resp.err)>>))
                ELSE Return(FString(<<Lit("Deleted URL category "), Fmt(category_id)>>)),
                1,
                <<call>>)

\* variant: the required-field check is done before the gate
zia_delete_url_category_required_first(category_id, kwargs, resp) ==
    LET confirmed == extract_confirmed_from_kwargs(kwargs)
        confirmation_check == check_confirmation("zia_delete_url_category", confirmed, <<>>)
    IN  IF ~Truthy(category_id)
        THEN Rejected(Raise("ValueError", Lit("category_id is required for deletion")))
        ELSE IF Truthy(confirmation_check) THEN Rejected(Return(confirmation_check))
        ELSE Result(
                IF Truthy(resp.err)
                THEN Raise("Exception", FString(<<Lit("Delete failed: "), Fmt(resp.err)>>))
                ELSE Return(FString(<<Lit("Deleted URL category "), Fmt(category_id)>>)),
                1,
                <<RemoteCall("delete_category", [category_id |-> category_id])>>)

zia_delete_url_category(category_id, kwargs, resp) ==
    LET confirmed == extract_confirmed_from_kwargs(kwargs)
        confirmation_check == check_confirmation("zia_delete_url_category", confirmed, <<>>)
    IN  IF Truthy(confirmation_check) THEN Rejected(Return(confirmation_check))
        ELSE IF ~Truthy(category_id)
        THEN Rejected(Raise("ValueError", Lit("category_id is required for deletion")))
        ELSE Result(
                IF Truthy(resp.err)
                THEN Raise("Exception", FString(<<Lit("Delete failed: "), Fmt(resp.err)>>))
                ELSE Return(FString(<<Lit("Deleted URL category "), Fmt(category_id)>>)),
                1,
                <<RemoteCall("delete_category", [category_id |-> category_id])>>)

(***************************************************************************)
(* Arguments and remote answers the invocations are drawn from.            *)
(***************************************************************************)
Chars12345 == <<"1", "2", "3", "4", "5">>
\* identifiers: absent, empty, zero, and present as a string or an integer
IdInputs == {PyNone, PyStr(<<>>), PyInt(0), PyStr(Chars12345), PyInt(7)}
KwargsInputs == {KwargsDefault, KwargsConfirmed, KwargsDeclined}
RemoteError == PyStr(<<"n", "o", "t", " ", "f", "o", "u", "n", "d">>)
\* the remote answers a delete gives: done, or an error
DeleteResponses == {Response(PyNone, PyNone), Response(PyNone, RemoteError)}
\* the remote answers an operation on one resource gives
ItemResponses == {Response(Resource(1), PyNone), Response(PyNone, RemoteError)}
NameInputs == {PyStr(<<>>), PyStr(<<"n">>)}
UrlA == PyStr(<<"a", ".", "c", "o">>)
UrlB == PyStr(<<"b", ".", "c", "o">>)
UrlListInputs == {PyNone, PyList(<<>>), PyList(<<UrlA>>), PyList(<<UrlA, UrlB>>)}

\* the remote answers a list operation gives
ListResponses == {Response(PyList(<<Resource(2), Resource(1), Resource(2)>>), PyNone),
                  Response(PyList(<<>>), PyNone),
                  Response(PyNone, RemoteError)}
\* the answers of a URL lookup: entries come as objects or as plain dicts
LookupResponses ==
    ListResponses \cup {Response(PyList(<<PyDict([url |-> UrlB]), Resource(1)>>), PyNone)}
DescriptionInputs == {PyNone, PyStr(<<>>), PyStr(<<"d">>)}
SearchInputs == {PyNone, PyStr(<<"I", "C", "M", "P">>)}
ProtocolInputs == {PyNone, PyStr(<<"T", "C", "P">>), PyStr(<<"u", "d", "p">>), PyStr(<<"S", "M", "T", "P">>)}
LocaleInputs == {PyNone, PyStr(<<"f", "r", "-", "F", "R">>), PyStr(<<"f", "r", "-", "f", "r">>), PyStr(<<"x", "x">>)}
OptionalBoolInputs == {PyNone, PyBool(TRUE), PyBool(FALSE)}

\* port definitions as native lists
PortSsh == PyList(<<PyStr(<<"d", "e", "s", "t">>), PyStr(<<"t", "c", "p">>), PyStr(<<"2", "2">>)>>)
PortWebRange == PyList(<<PyStr(<<"d", "e", "s", "t">>), PyStr(<<"T", "C", "P">>), PyStr(<<"8", "0">>), PyStr(<<"4", "4", "3">>)>>)
PortDns == PyList(<<PyStr(<<"s", "r", "c">>), PyStr(<<"u", "d", "p">>), PyInt(53)>>)
PortShort == PyList(<<PyStr(<<"d", "e", "s", "t">>), PyStr(<<"t", "c", "p">>)>>)
PortBadDirection == PyList(<<PyStr(<<"D", "E", "S", "T">>), PyStr(<<"t", "c", "p">>), PyStr(<<"2", "2">>)>>)
PortBadProtocol == PyList(<<PyStr(<<"d", "e", "s", "t">>), PyStr(<<"i", "c", "m", "p">>), PyStr(<<"2", "2">>)>>)
PortBadBoth == PyList(<<PyStr(<<"u", "p">>), PyStr(<<"i", "c", "m", "p">>), PyStr(<<"2", "2">>)>>)
PortShortBadBoth == PyList(<<PyStr(<<"u", "p">>), PyStr(<<"i", "c", "m", "p">>)>>)
PortOutOfRange == PyList(<<PyStr(<<"d", "e", "s", "t">>), PyStr(<<"u", "d", "p">>), PyStr(<<"9", "9", "9", "9", "9">>)>>)
PortNumericProtocol == PyList(<<PyStr(<<"d", "e", "s", "t">>), PyInt(6), PyStr(<<"2", "2">>)>>)

\* the ports argument: absent, native lists, JSON texts and other texts
PortsNative ==
    {PyList(<<>>), PyList(<<PortSsh>>), PyList(<<PortWebRange, PortDns>>),
     PyList(<<PortShort>>), PyList(<<PortBadDirection>>), PyList(<<PortBadProtocol>>),
     PyList(<<PortBadBoth>>), PyList(<<PortShortBadBoth>>),
     PyList(<<PortSsh, PortShort>>), PyList(<<PortBadProtocol, PortBadDirection>>),
     PyList(<<PortOutOfRange>>),
     PyList(<<PortNumericProtocol>>), PyList(<<PyInt(7)>>), PyList(<<PyStr(<<"d", "e", "s", "t">>)>>)}
PortsJson ==
    {PyStr(<<"[", "]">>), PyStr(<<"[", "[", "\"", "d", "e", "s", "t", "\"", ",", "\"", "t", "c", "p", "\"", ",", "\"", "2", "2", "\"", "]", "]">>),
     PyStr(<<"[", "[", "\"", "d", "e", "s", "t", "\"", ",", " ", "\"", "T", "C", "P", "\"", ",", " ", "\"", "8", "0", "\"", ",", " ", "\"", "4", "4", "3", "\"", "]", ",", " ", "[", "\"", "s", "r", "c", "\"", ",", " ", "\"", "u", "d", "p", "\"", ",", " ", "5", "3", "]", "]">>),
     PyStr(<<"[", "[", "\"", "d", "e", "s", "t", "\"", ",", "\"", "t", "c", "p", "\"", "]", "]">>), PyStr(<<"[", "[", "\"", "D", "E", "S", "T", "\"", ",", "\"", "t", "c", "p", "\"", ",", "\"", "2", "2", "\"", "]", "]">>),
     PyStr(<<"[", "[", "\"", "d", "e", "s", "t", "\"", ",", "\"", "i", "c", "m", "p", "\"", ",", "\"", "2", "2", "\"", "]", "]">>), PyStr(<<"[", "[", "\"", "d", "e", "s", "t", "\"", ",", "\"", "t", "c", "p", "\"", ",", "\"", "2", "2", "\"", "]", ",", "[", "\"", "d", "e", "s", "t", "\"", ",", "\"", "t", "c", "p", "\"", "]", "]">>),
     PyStr(<<"[", "[", "\"", "d", "e", "s", "t", "\"", ",", "6", ",", "\"", "2", "2", "\"", "]", "]">>), PyStr(<<"[", "7", "]">>), PyStr(<<"7">>), PyStr(<<"\"", "d", "e", "s", "t", "\"">>), PyStr(<<"n", "u", "l", "l">>)}
PortsNotJson ==
    {PyStr(<<>>), PyStr(<<" ", ",", " ">>), PyStr(<<"d", "e", "s", "t", ",", "t", "c", "p", ",", "2", "2">>), PyStr(<<"[", "[", "\"", "d", "e", "s", "t", "\"", ",", "\"", "t", "c", "p", "\"", ",", "\"", "2", "2", "\"", "]">>),
     PyStr(<<"[", "[", "\"", "d", "e", "s", "t", "\"", ",", "\"", "t", "c", "p", "\"", ",", "\"", "2", "2", "\"", "]", ",", "]">>)}
PortsInputs == {PyNone} \cup PortsNative \cup PortsJson \cup PortsNotJson

\* the service_ids argument
ServiceIdsInputs ==
    {PyNone, PyList(<<>>), PyList(<<PyStr(<<"1", "5">>), PyStr(<<"7">>)>>), PyList(<<PyInt(15), PyInt(7)>>),
     PyStr(<<"[", "]">>), PyStr(<<"[", "\"", "1", "5", "\"", ",", "\"", "7", "\"", "]">>), PyStr(<<"[", "1", "5", ",", " ", "7", "]">>), PyStr(<<"7">>), PyStr(<<"\"", "1", "5", "\"">>),
     PyStr(<<>>), PyStr(<<" ", ",", " ">>), PyStr(<<"1", "5", ",", "7">>), PyStr(<<"[", "1", "5", ",", " ", "7">>)}

\* the user_ids argument
UserIdsInputs ==
    {PyNone, PyList(<<>>), PyList(<<PyStr(<<"1", "5">>), PyStr(<<"7">>)>>), PyList(<<PyInt(15), PyInt(7)>>),
     PyStr(<<"[", "]">>), PyStr(<<"[", "\"", "1", "5", "\"", ",", "\"", "7", "\"", "]">>), PyStr(<<"[", "1", "5", ",", " ", "7", "]">>), PyStr(<<"7">>),
     PyStr(<<>>), PyStr(<<"1", "5", ",", "7">>), PyStr(<<"1", "5", ",", " ", "7", "]">>)}

PageInputs == {PyNone, PyInt(-1), PyInt(0), PyInt(1), PyInt(2)}
PageSizeInputs == {PyNone, PyInt(0), PyInt(1), PyInt(500), PyInt(1000), PyInt(1001)}

AppA == PyStr(<<"B", "O", "X">>)
AppB == PyStr(<<"Z", "O", "O", "M">>)
\* the cloud_apps argument
CloudAppsInputs ==
    {PyList(<<>>), PyList(<<AppA>>), PyList(<<AppB, AppA>>),
     PyStr(<<"[", "]">>), PyStr(<<"[", "\"", "B", "O", "X", "\"", "]">>), PyStr(<<"[", "\"", "Z", "O", "O", "M", "\"", ",", " ", "\"", "B", "O", "X", "\"", "]">>), PyStr(<<"\"", "B", "O", "X", "\"">>), PyStr(<<"7">>),
     PyStr(<<>>), PyStr(<<"Z", "O", "O", "M", ",", " ", "B", "O", "X">>), PyStr(<<" ", ",", " ", "B", "O", "X", ",", ",">>), PyStr(<<" ", ",">>), PyStr(<<"B", "O", "X">>)}
RuleTypeInputs == {PyStr(<<"W", "E", "B", "M", "A", "I", "L">>)}

\* a list of MaxUrls distinct URLs: more than one batch of a hundred
ManyUrls == PyList([i \in 1..MaxUrls |-> PyStr(<<"u">> \o IntToChars(i))])

\* the urls argument of zia_url_lookup
LookupUrlsInputs ==
    {PyList(<<>>), PyList(<<UrlA>>), PyList(<<UrlB, UrlA>>), ManyUrls,
     PyStr(<<"[", "]">>), PyStr(<<"[", "\"", "a", ".", "c", "o", "\"", "]">>), PyStr(<<"[", "\"", "b", ".", "c", "o", "\"", ",", " ", "\"", "a", ".", "c", "o", "\"", "]">>), PyStr(<<"\"", "a", ".", "c", "o", "\"">>),
     PyStr(<<>>), PyStr(<<"b", ".", "c", "o", ",", " ", "a", ".", "c", "o">>), PyStr(<<" ", "a", ".", "c", "o", " ", ",", ",">>), PyStr(<<" ", ",", " ">>), PyStr(<<"a", ".", "c", "o">>)}

\* the query_params argument of zia_list_url_categories
QueryParamsInputs == {PyNone, PyDict(<<>>), PyDict([search |-> PyStr(<<"n", "e", "w", "s">>)])}

\* list-typed fields of the URL-category tools; the tools take them as given
UrlFieldInputs == UrlListInputs \cup {PyStr(<<"a", ".", "c", "o", ",", "b", ".", "c", "o">>)}
KeywordInputs == {PyNone, PyList(<<PyStr(<<"k">>)>>)}
IpRangeInputs == {PyNone, PyList(<<PyStr(<<"1", "0", ".", "0", ".", "0", ".", "0", "/", "8">>)>>)}
\* identifiers of the update tools: absent, empty, zero, a decimal string, an integer, a name
UpdateIdInputs == IdInputs \cup {PyStr(<<"a", "b", "c">>)}

(***************************************************************************)
(* The state: the remote operations the client has been asked for so far   *)
(* (calls), the number of client resolutions so far (resolved), the last   *)
(* invocation with its arguments and what it did (last), and the number of *)
(* invocations the caller still makes (remaining).                         *)
(***************************************************************************)
NoInvocation ==
    [tool |-> "none", args |-> <<>>, out |-> Return(PyNone), resolved |-> 0, calls |-> <<>>]

Invoke(tool, args, r) ==
    /\ remaining' = remaining - 1
    /\ calls' = calls \o r.calls
    /\ resolved' = resolved + r.resolved
    /\ last' = [tool |-> tool, args |-> args, out |-> r.out,
                resolved |-> r.resolved, calls |-> r.calls]

Call_zia_delete_network_service ==
    /\ remaining > 0
    /\ \E service_id \in IdInputs, kwargs \in KwargsInputs, resp \in DeleteResponses :
            Invoke("zia_delete_network_service",
                   [id |-> service_id, kwargs |-> kwargs, resp |-> resp],
                   zia_delete_network_service(service_id, kwargs, resp))

Call_zia_delete_network_svc_group ==
    /\ remaining > 0
    /\ \E group_id \in IdInputs, kwargs \in KwargsInputs, resp \in DeleteResponses :
            Invoke("zia_delete_network_svc_group",
                   [id |-> group_id, kwargs |-> kwargs, resp |-> resp],
                   zia_delete_network_svc_group(group_id, kwargs, resp))

Call_zia_remove_urls_from_category ==
    /\ remaining > 0
    /\ \E category_id \in IdInputs, configured_name \in NameInputs, urls \in UrlListInputs,
           kwargs \in KwargsInputs, resp \in ItemResponses :
            Invoke("zia_remove_urls_from_category",
                   [id |-> category_id, configured_name |-> configured_name, urls |-> urls,
                    kwargs |-> kwargs, resp |-> resp],
                   zia_remove_urls_from_category(category_id, configured_name, urls, kwargs, resp))

Call_zia_delete_url_category ==
    /\ remaining > 0
    /\ \E category_id \in IdInputs, kwargs \in KwargsInputs, resp \in DeleteResponses :
            Invoke("zia_delete_url_category",
                   [id |-> category_id, kwargs |-> kwargs, resp |-> resp],
                   zia_delete_url_category(category_id, kwargs, resp))

Call_zia_list_network_services ==
    /\ remaining > 0
    /\ \E search \in SearchInputs, protocol \in ProtocolInputs, locale \in LocaleInputs,
           resp \in ListResponses :
            Invoke("zia_list_network_services",
                   [search |-> search, protocol |-> protocol, locale |-> locale, resp |-> resp],
                   zia_list_network_services(search, protocol, locale, resp))

Call_zia_get_network_service ==
    /\ remaining > 0
    /\ \E service_id \in IdInputs, resp \in ItemResponses :
            Invoke("zia_get_network_service", [id |-> service_id, resp |-> resp],
                   zia_get_network_service(service_id, resp))

Call_zia_create_network_service ==
    /\ remaining > 0
    /\ \E name \in NameInputs, ports \in PortsInputs, description \in DescriptionInputs,
           resp \in ItemResponses :
            Invoke("zia_create_network_service",
                   [name |-> name, ports |-> ports, description |-> description, resp |-> resp],
                   zia_create_network_service(name, ports, description, resp))

Call_zia_update_network_service ==
    /\ remaining > 0
    /\ \E service_id \in UpdateIdInputs, name \in NameInputs, ports \in PortsInputs,
           description \in DescriptionInputs, resp \in ItemResponses :
            Invoke("zia_update_network_service",
                   [id |-> service_id, name |-> name, ports |-> ports,
                    description |-> description, resp |-> resp],
                   zia_update_network_service(service_id, name, ports, description, resp))

Call_zia_list_network_svc_groups ==
    /\ remaining > 0
    /\ \E search \in SearchInputs, resp \in ListResponses :
            Invoke("zia_list_network_svc_groups", [search |-> search, resp |-> resp],
                   zia_list_network_svc_groups(search, resp))

Call_zia_get_network_svc_group ==
    /\ remaining > 0
    /\ \E group_id \in IdInputs, resp \in ItemResponses :
            Invoke("zia_get_network_svc_group", [id |-> group_id, resp |-> resp],
                   zia_get_network_svc_group(group_id, resp))

Call_zia_create_network_svc_group ==
    /\ remaining > 0
    /\ \E name \in NameInputs, service_ids \in ServiceIdsInputs,
           description \in DescriptionInputs, resp \in ItemResponses :
            Invoke("zia_create_network_svc_group",
                   [name |-> name, service_ids |-> service_ids, description |-> description,
                    resp |-> resp],
                   zia_create_network_svc_group(name, service_ids, description, resp))

Call_zia_update_network_svc_group ==
    /\ remaining > 0
    /\ \E group_id \in UpdateIdInputs, name \in NameInputs, service_ids \in ServiceIdsInputs,
           description \in DescriptionInputs, resp \in ItemResponses :
            Invoke("zia_update_network_svc_group",
                   [id |-> group_id, name |-> name, service_ids |-> service_ids,
                    description |-> description, resp |-> resp],
                   zia_update_network_svc_group(group_id, name, service_ids, description, resp))

Call_zia_list_device_groups ==
    /\ remaining > 0
    /\ \E include_device_info \in OptionalBoolInputs, include_pseudo_groups \in OptionalBoolInputs,
           resp \in ListResponses :
            Invoke("zia_list_device_groups",
                   [include_device_info |-> include_device_info,
                    include_pseudo_groups |-> include_pseudo_groups, resp |-> resp],
                   zia_list_device_groups(include_device_info, include_pseudo_groups, resp))

Call_zia_list_devices ==
    /\ remaining > 0
    /\ \E name \in {PyNone} \cup NameInputs, user_ids \in UserIdsInputs,
           include_all \in OptionalBoolInputs, page \in PageInputs, page_size \in PageSizeInputs,
           resp \in ListResponses :
            Invoke("zia_list_devices",
                   [name |-> name, user_ids |-> user_ids, include_all |-> include_all,
                    page |-> page, page_size |-> page_size, resp |-> resp],
                   zia_list_devices(name, user_ids, include_all, page, page_size, resp))

Call_zia_list_devices_lite ==
    /\ remaining > 0
    /\ \E resp \in ListResponses :
            Invoke("zia_list_devices_lite", [resp |-> resp], zia_list_devices_lite(resp))

Call_zia_list_network_apps ==
    /\ remaining > 0
    /\ \E search \in SearchInputs, locale \in LocaleInputs, resp \in ListResponses :
            Invoke("zia_list_network_apps",
                   [search |-> search, locale |-> locale, resp |-> resp],
                   zia_list_network_apps(search, locale, resp))

Call_zia_get_network_app ==
    /\ remaining > 0
    /\ \E app_id \in IdInputs, resp \in ItemResponses :
            Invoke("zia_get_network_app", [id |-> app_id, resp |-> resp],
                   zia_get_network_app(app_id, resp))

Call_zia_list_cloud_app_control_actions ==
    /\ remaining > 0
    /\ \E rule_type \in RuleTypeInputs, cloud_apps \in CloudAppsInputs,
           resp \in {Response(PyList(<<PyStr(<<"A", "L", "L", "O", "W">>), PyStr(<<"D", "E", "N", "Y">>)>>), PyNone),
                     Response(PyNone, PyNone), Response(PyNone, RemoteError)} :
            Invoke("zia_list_cloud_app_control_actions",
                   [rule_type |-> rule_type, cloud_apps |-> cloud_apps, resp |-> resp],
                   zia_list_cloud_app_control_actions(rule_type, cloud_apps, resp))

Call_zia_list_url_categories ==
    /\ remaining > 0
    /\ \E query_params \in QueryParamsInputs, resp \in ListResponses :
            Invoke("zia_list_url_categories", [query_params |-> query_params, resp |-> resp],
                   zia_list_url_categories(query_params, resp))

Call_zia_url_lookup ==
    /\ remaining > 0
    /\ \E urls \in LookupUrlsInputs, resp \in LookupResponses :
            Invoke("zia_url_lookup", [urls |-> urls, resp |-> resp],
                   zia_url_lookup(urls, resp))

Call_zia_get_url_category ==
    /\ remaining > 0
    /\ \E category_id \in IdInputs, resp \in ItemResponses :
            Invoke("zia_get_url_category", [id |-> category_id, resp |-> resp],
                   zia_get_url_category(category_id, resp))

Call_zia_create_url_category ==
    /\ remaining > 0
    /\ \E configured_name \in NameInputs, super_category \in {PyStr(<<>>), PyStr(<<"N", "E", "W", "S">>)},
           urls \in UrlFieldInputs, description \in DescriptionInputs,
           custom_category \in {PyBool(TRUE), PyBool(FALSE)},
           keywords \in KeywordInputs, ip_ranges \in IpRangeInputs,
           db_categorized_urls \in {PyNone, PyList(<<UrlB>>)},
           keywords_retaining_parent_category \in KeywordInputs,
           ip_ranges_retaining_parent_category \in IpRangeInputs, resp \in ItemResponses :
            Invoke("zia_create_url_category",
                   [configured_name |-> configured_name, super_category |-> super_category,
                    urls |-> urls, description |-> description,
                    custom_category |-> custom_category, keywords |-> keywords,
                    ip_ranges |-> ip_ranges, db_categorized_urls |-> db_categorized_urls,
                    keywords_retaining_parent_category |-> keywords_retaining_parent_category,
                    ip_ranges_retaining_parent_category |-> ip_ranges_retaining_parent_category,
                    resp |-> resp],
                   zia_create_url_category(configured_name, super_category, urls, description,
                        custom_category, keywords, ip_ranges, db_categorized_urls,
                        keywords_retaining_parent_category,
                        ip_ranges_retaining_parent_category, resp))

Call_zia_update_url_category ==
    /\ remaining > 0
    /\ \E category_id \in IdInputs, configured_name \in NameInputs,
           urls \in UrlFieldInputs, description \in DescriptionInputs,
           keywords \in KeywordInputs, ip_ranges \in IpRangeInputs,
           db_categorized_urls \in {PyNone, PyList(<<UrlB>>)},
           keywords_retaining_parent_category \in KeywordInputs,
           ip_ranges_retaining_parent_category \in IpRangeInputs, resp \in ItemResponses :
            Invoke("zia_update_url_category",
                   [id |-> category_id, configured_name |-> configured_name,
                    urls |-> urls, description |-> description, keywords |-> keywords,
                    ip_ranges |-> ip_ranges, db_categorized_urls |-> db_categorized_urls,
                    keywords_retaining_parent_category |-> keywords_retaining_parent_category,
                    ip_ranges_retaining_parent_category |-> ip_ranges_retaining_parent_category,
                    resp |-> resp],
                   zia_update_url_category(category_id, configured_name, urls, description,
                        keywords, ip_ranges, db_categorized_urls,
                        keywords_retaining_parent_category,
                        ip_ranges_retaining_parent_category, resp))

Call_zia_add_urls_to_category ==
    /\ remaining > 0
    /\ \E category_id \in IdInputs, configured_name \in NameInputs, urls \in UrlFieldInputs,
           resp \in ItemResponses :
            Invoke("zia_add_urls_to_category",
                   [id |-> category_id, configured_name |-> configured_name, urls |-> urls,
                    resp |-> resp],
                   zia_add_urls_to_category(category_id, configured_name, urls, resp))

DestructiveTools ==
    {"zia_delete_network_service", "zia_delete_network_svc_group",
     "zia_remove_urls_from_category", "zia_delete_url_category"}

(***************************************************************************)
(* A session of the destructive tools: MaxInvocations invocations in a row *)
(* against one client.                                                     *)
(***************************************************************************)
InitDestructive ==
    /\ calls = <<>>
    /\ resolved = 0
    /\ last = NoInvocation
    /\ remaining = MaxInvocations

NextDestructive ==
    \/ Call_zia_delete_network_service
    \/ Call_zia_delete_network_svc_group
    \/ Call_zia_remove_urls_from_category
    \/ Call_zia_delete_url_category

SpecDestructive == InitDestructive /\ [][NextDestructive]_vars

(***************************************************************************)
(* A session that mixes reads with a deletion: MaxInvocations invocations  *)
(* in a row against one client.                                            *)
(***************************************************************************)
InitSession ==
    /\ calls = <<>>
    /\ resolved = 0
    /\ last = NoInvocation
    /\ remaining = MaxInvocations

NextSession ==
    \/ Call_zia_list_url_categories
    \/ Call_zia_list_network_svc_groups
    \/ Call_zia_get_network_service
    \/ Call_zia_delete_network_service

SpecSession == InitSession /\ [][NextSession]_vars

(***************************************************************************)
(* One invocation of any tool against a fresh client.  The tools keep no   *)
(* state of their own, so what an invocation does is a function of its     *)
(* arguments and of the remote's answer.                                   *)
(***************************************************************************)
Init ==
    /\ calls = <<>>
    /\ resolved = 0
    /\ last = NoInvocation
    /\ remaining = 1

Next ==
    \/ Call_zia_list_cloud_app_control_actions
    \/ Call_zia_list_device_groups
    \/ Call_zia_list_devices
    \/ Call_zia_list_devices_lite
    \/ Call_zia_list_network_apps
    \/ Call_zia_get_network_app
    \/ Call_zia_list_network_services
    \/ Call_zia_get_network_service
    \/ Call_zia_create_network_service
    \/ Call_zia_update_network_service
    \/ Call_zia_delete_network_service
    \/ Call_zia_list_network_svc_groups
    \/ Call_zia_get_network_svc_group
    \/ Call_zia_create_network_svc_group
    \/ Call_zia_update_network_svc_group
    \/ Call_zia_delete_network_svc_group
    \/ Call_zia_list_url_categories
    \/ Call_zia_url_lookup
    \/ Call_zia_get_url_category
    \/ Call_zia_create_url_category
    \/ Call_zia_update_url_category
    \/ Call_zia_add_urls_to_category
    \/ Call_zia_remove_urls_from_category
    \/ Call_zia_delete_url_category

Spec == Init /\ [][Next]_vars

(***************************************************************************)
(* Vocabulary of the properties.                                           *)
(***************************************************************************)
Confirmed(inv) == inv.args.kwargs = KwargsConfirmed
IsPending(inv) == inv.out = Return(PendingDescription(inv.tool))
IsValidationError(inv) == inv.out.kind = "raise" /\ inv.out.exc = "ValueError"

\* the remote operation each destructive tool stands for, on the arguments
\* of invocation inv
ExpectedDelete(inv) ==
    CASE inv.tool = "zia_delete_network_service" ->
            RemoteCall("delete_network_service", [arg0 |-> inv.args.id])
      [] inv.tool = "zia_delete_network_svc_group" ->
            RemoteCall("delete_network_svc_group", [arg0 |-> inv.args.id])
      [] inv.tool = "zia_delete_url_category" ->
            RemoteCall("delete_category", [category_id |-> inv.args.id])
      [] inv.tool = "zia_remove_urls_from_category" ->
            RemoteCall("delete_urls_from_category",
                       [category_id |-> inv.args.id,
                        configured_name |-> inv.args.configured_name,
                        urls |-> inv.args.urls])

\* the message of the required-field error of each destructive tool
RequiredFieldMessage(tool) ==
    CASE tool = "zia_delete_network_service" -> Lit("service_id is required for delete")
      [] tool = "zia_delete_network_svc_group" -> Lit("group_id is required for delete")
      [] tool = "zia_delete_url_category" -> Lit("category_id is required for deletion")
      [] tool = "zia_remove_urls_from_category" ->
            Lit("category_id, configured_name, and urls are required for removing URLs")

\* every field the destructive tool requires is present and non-empty
RequiredFieldsPresent(inv) ==
    /\ Truthy(inv.args.id)
    /\ inv.tool = "zia_remove_urls_from_category" =>
            Truthy(inv.args.configured_name) /\ Truthy(inv.args.urls)

C2_Original ==
    (last.tool \in DestructiveTools /\ Confirmed(last) /\ Truthy(last.args.id)) =>
        last.calls = <<ExpectedDelete(last)>>

(***************************************************************************)
(* C2, amended.  The same, where zia_remove_urls_from_category also needs  *)
(* a non-empty configured_name and a non-empty urls list: with one of      *)
(* them empty it raises the required-field error and issues no call.       *)
(***************************************************************************)
C2_ConfirmedIssuesOneDelete ==
    (last.tool \in DestructiveTools /\ Confirmed(last)) =>
        IF RequiredFieldsPresent(last)
        THEN last.calls = <<ExpectedDelete(last)>>
        ELSE last.calls = <<>> /\ IsValidationError(last)

C2_Witness ==
    /\ last.tool = "zia_remove_urls_from_category"
    /\ Confirmed(last)
    /\ last.args.id = PyInt(7)
    /\ last.args.urls = PyList(<<UrlA, UrlB>>)
    /\ Len(last.calls) = 1
    /\ last.calls[1].args.category_id = PyInt(7)

SameTarget(a, b) ==
    /\ a.tool = b.tool
    /\ ExpectedDelete(a) = ExpectedDelete(b)

C4_NoDeduplication ==
    [][(/\ remaining' # remaining
        /\ last.tool \in DestructiveTools /\ last'.tool \in DestructiveTools
        /\ Confirmed(last) /\ Confirmed(last')
        /\ RequiredFieldsPresent(last) /\ RequiredFieldsPresent(last')
        /\ SameTarget(last, last'))
       => (/\ calls' = Append(calls, ExpectedDelete(last'))
           /\ calls'[Len(calls')] = calls[Len(calls)]
           /\ (last'.out.kind = "raise") = Truthy(last'.args.resp.err))]_vars

\* the same confirmed deletion twice; the second one is answered with an error
C4_Witness ==
    /\ last.tool = "zia_delete_url_category"
    /\ Confirmed(last)
    /\ Len(calls) = 2
    /\ calls[1] = calls[2]
    /\ last.out.kind = "raise"
    /\ last.out.exc = "Exception"

IsJsonList(value) ==
    /\ isinstance(value, "str")
    /\ json_loads(value).ok
    /\ isinstance(json_loads(value).val, "list")
IsNotJson(value) == isinstance(value, "str") /\ ~json_loads(value).ok
SuppliedList(value) ==
    IF isinstance(value, "list") THEN value.v
    ELSE IF IsJsonList(value) THEN json_loads(value).val.v
    ELSE <<>>

IsPortDefinition(d) == d.t \in {"list", "tuple"}
\* d breaks the length rule, the direction rule or the protocol rule
ViolatesPortRule(d) ==
    /\ IsPortDefinition(d)
    /\ \/ Len(d.v) < 3
       \/ d.v[1] \notin {PyStr(<<"s", "r", "c">>), PyStr(<<"d", "e", "s", "t">>)}
       \/ /\ isinstance(d.v[2], "str")
          /\ lower(d.v[2]) \notin {PyStr(<<"t", "c", "p">>), PyStr(<<"u", "d", "p">>)}
\* every definition is a sequence whose protocol field, if any, is a string
PortFieldsAreStrings(defs) ==
    \A i \in 1..Len(defs) :
        /\ IsPortDefinition(defs[i])
        /\ Len(defs[i].v) >= 2 => isinstance(defs[i].v[2], "str")

PortTools == {"zia_create_network_service", "zia_update_network_service"}

(***************************************************************************)
(* C5.  In zia_create_network_service and zia_update_network_service, a    *)
(* supplied port definition with fewer than 3 fields, or a direction       *)
(* outside {src, dest}, or a protocol that is outside {tcp, udp} when      *)
(* compared in lower case, makes the call fail before the client is        *)
(* resolved, with no remote call; the error is the validation error        *)
(* (ValueError) whenever the protocol fields supplied are strings.         *)
(***************************************************************************)
C5_InvalidPortRejected ==
    (/\ last.tool \in PortTools
     /\ \E i \in 1..Len(SuppliedList(last.args.ports)) :
            ViolatesPortRule(SuppliedList(last.args.ports)[i]))
    => (/\ last.out.kind = "raise"
        /\ last.out.exc \in {"ValueError", "TypeError", "AttributeError"}
        /\ PortFieldsAreStrings(SuppliedList(last.args.ports)) => last.out.exc = "ValueError"
        /\ last.calls = <<>>
        /\ last.resolved = 0)

\* an update whose only fault is the direction DEST of its one port definition
C5_Witness ==
    /\ last.tool = "zia_update_network_service"
    /\ last.args.id = PyStr(Chars12345)
    /\ last.args.name = PyStr(<<"n">>)
    /\ last.args.ports = PyStr(<<"[", "[", "\"", "D", "E", "S", "T", "\"", ",", "\"", "t", "c", "p", "\"", ",", "\"", "2", "2", "\"", "]", "]">>)
    /\ last.out.kind = "raise"
    /\ last.out.exc = "ValueError"
    /\ last.calls = <<>>

(***************************************************************************)
(* C6.  In every tool an input validation failure is raised before any     *)
(* remote operation is invoked: an invocation that ends in a validation    *)
(* error (or in the TypeError or AttributeError of a malformed element)    *)
(* has issued no remote call, and the client's log is as it was.           *)
(***************************************************************************)
C6_ValidationBeforeRemote ==
    (last.out.kind = "raise" /\ last.out.exc \in {"ValueError", "TypeError", "AttributeError"})
    => (last.calls = <<>> /\ calls = <<>>)

\* a page size out of range, found after the client was resolved
C6_Witness ==
    /\ last.tool = "zia_list_devices"
    /\ last.args.page_size = PyInt(1001)
    /\ last.out = Raise("ValueError", Lit("page_size must be between 1 and 1000"))
    /\ last.resolved = 1
    /\ calls = <<>>

(***************************************************************************)
(* C8.  As claimed: in every tool an invocation that fails validation or   *)
(* is left pending by the gate never resolves a client.                    *)
(***************************************************************************)
C8_Original ==
    (IsValidationError(last) \/ (last.tool \in DestructiveTools /\ IsPending(last)))
    => last.resolved = 0

(***************************************************************************)
(* C8, amended.  zia_list_network_services, zia_list_network_apps and      *)
(* zia_list_devices resolve the client first and validate their filters    *)
(* afterwards, still before the remote call; zia_update_network_svc_group  *)
(* converts group_id with int() after resolving the client.  Everywhere    *)
(* else an invocation that fails validation or is left pending by the      *)
(* gate has not resolved a client.                                         *)
(***************************************************************************)
ResolveFirstTools ==
    {"zia_list_network_services", "zia_list_network_apps", "zia_list_devices"}
IsIntConversionError(inv) ==
    /\ inv.tool = "zia_update_network_svc_group"
    /\ inv.out = Raise("ValueError", Lit("invalid literal for int()"))

C8_ValidationBeforeResolveExceptListFilters ==
    (IsValidationError(last) \/ (last.tool \in DestructiveTools /\ IsPending(last)))
    => (/\ last.calls = <<>>
        /\ last.resolved =
             IF last.tool \in ResolveFirstTools \/ IsIntConversionError(last) THEN 1 ELSE 0)

\* the locale of zia_list_network_apps is rejected after the client was resolved
C8_Witness ==
    /\ last.tool = "zia_list_network_apps"
    /\ last.args.locale = PyStr(<<"x", "x">>)
    /\ IsValidationError(last)
    /\ last.resolved = 1
    /\ resolved = 1
    /\ calls = <<>>

(***************************************************************************)
(* C9.  A sequence-typed argument given as the JSON text of a list and     *)
(* the same list given natively produce the same outcome: the same kind    *)
(* of result or error and the same remote calls with the same arguments,   *)
(* the empty list and "[]" included.                                       *)
(***************************************************************************)
SequenceTools ==
    {"zia_create_network_service", "zia_update_network_service",
     "zia_create_network_svc_group", "zia_update_network_svc_group",
     "zia_list_devices", "zia_list_cloud_app_control_actions", "zia_url_lookup"}

\* the sequence-typed argument of invocation inv
SequenceArgument(inv) ==
    CASE inv.tool \in PortTools -> inv.args.ports
      [] inv.tool \in {"zia_create_network_svc_group", "zia_update_network_svc_group"} ->
            inv.args.service_ids
      [] inv.tool = "zia_list_devices" -> inv.args.user_ids
      [] inv.tool = "zia_list_cloud_app_control_actions" -> inv.args.cloud_apps
      [] inv.tool = "zia_url_lookup" -> inv.args.urls

\* what the tool of invocation inv does on the same arguments and the same
\* remote answer, with value as its sequence-typed argument
WithSequenceArgument(inv, value) ==
    LET a == inv.args
    IN  CASE inv.tool = "zia_create_network_service" ->
                zia_create_network_service(a.name, value, a.description, a.resp)
          [] inv.tool = "zia_update_network_service" ->
                zia_update_network_service(a.id, a.name, value, a.description, a.resp)
          [] inv.tool = "zia_create_network_svc_group" ->
                zia_create_network_svc_group(a.name, value, a.description, a.resp)
          [] inv.tool = "zia_update_network_svc_group" ->
                zia_update_network_svc_group(a.id, a.name, value, a.description, a.resp)
          [] inv.tool = "zia_list_devices" ->
                zia_list_devices(a.name, value, a.include_all, a.page, a.page_size, a.resp)
          [] inv.tool = "zia_list_cloud_app_control_actions" ->
                zia_list_cloud_app_control_actions(a.rule_type, value, a.resp)
          [] inv.tool = "zia_url_lookup" -> zia_url_lookup(value, a.resp)

C9_JsonTextEquivalentToNativeList ==
    (last.tool \in SequenceTools /\ IsJsonList(SequenceArgument(last)))
    => LET native == WithSequenceArgument(last, json_loads(SequenceArgument(last)).val)
       IN  /\ native.out.kind = last.out.kind
           /\ native.out.exc = last.out.exc
           /\ native.calls = last.calls

(***************************************************************************)
(* C10.  As claimed: user_ids of zia_list_devices, service_ids of          *)
(* zia_update_network_svc_group and ports of zia_update_network_service,   *)
(* given as a non-empty string that is not valid JSON, are split on commas *)
(* instead of failing: the invocation does what it does on the list of the *)
(* comma-separated tokens.                                                 *)
(***************************************************************************)
OptionalSequenceTools ==
    {"zia_list_devices", "zia_update_network_svc_group", "zia_update_network_service"}

C10_Original ==
    (/\ last.tool \in OptionalSequenceTools
     /\ IsNotJson(SequenceArgument(last))
     /\ Truthy(SequenceArgument(last)))
    => LET split == WithSequenceArgument(last, split_and_strip(SequenceArgument(last)))
       IN  split.out = last.out /\ split.calls = last.calls

(***************************************************************************)
(* C10, amended.  There is no comma-splitting for these fields: a          *)
(* non-empty string that is not valid JSON fails with the validation       *)
(* error "Invalid JSON for <field>" and no remote call is issued (once     *)
(* the required id and name of the update tools are present).  The empty   *)
(* string fails the same way in zia_list_devices and counts as an          *)
(* omitted field in the two update tools.                                  *)
(***************************************************************************)
InvalidJsonError(inv) ==
    Raise("ValueError",
          FString(<<CASE inv.tool = "zia_list_devices" -> Lit("Invalid JSON for user_ids: ")
                      [] inv.tool = "zia_update_network_svc_group" ->
                            Lit("Invalid JSON for service_ids: ")
                      [] inv.tool = "zia_update_network_service" ->
                            Lit("Invalid JSON for ports: "),
                    Lit("JSONDecodeError")>>))

C10_MalformedJsonFails ==
    (/\ last.tool \in OptionalSequenceTools
     /\ IsNotJson(SequenceArgument(last))
     /\ last.tool # "zia_list_devices" => Truthy(last.args.id) /\ Truthy(last.args.name))
    => IF last.tool # "zia_list_devices" /\ ~Truthy(SequenceArgument(last))
       THEN last.calls = WithSequenceArgument(last, PyNone).calls /\ Len(last.calls) <= 1
       ELSE last.out = InvalidJsonError(last) /\ last.calls = <<>>

\* comma-separated port fields given to zia_update_network_service
C10_Witness ==
    /\ last.tool = "zia_update_network_service"
    /\ last.args.ports = PyStr(<<"d", "e", "s", "t", ",", "t", "c", "p", ",", "2", "2">>)
    /\ last.args.id = PyInt(7)
    /\ last.args.name = PyStr(<<"n">>)
    /\ last.out.kind = "raise"
    /\ last.out.exc = "ValueError"
    /\ calls = <<>>

(***************************************************************************)
(* C11.  As claimed: zia_url_lookup with N URLs issues ceil(N/100) lookup  *)
(* calls, each carrying at most a hundred URLs taken in input order.       *)
(***************************************************************************)
\* the list of URLs the urls argument stands for
LookupUrls(value) ==
    IF isinstance(value, "list") THEN value.v
    ELSE IF IsJsonList(value) THEN json_loads(value).val.v
    ELSE IF IsNotJson(value) THEN split_and_strip(value).v
    ELSE <<>>

IdentifierTools ==
    {"zia_get_network_service", "zia_update_network_service", "zia_delete_network_service",
     "zia_get_network_svc_group", "zia_update_network_svc_group",
     "zia_delete_network_svc_group", "zia_get_network_app",
     "zia_get_url_category", "zia_update_url_category", "zia_add_urls_to_category",
     "zia_remove_urls_from_category", "zia_delete_url_category"}

\* the remote operation of invocation inv was issued and reported an error
RemoteFailed(inv) == Len(inv.calls) = 1 /\ Truthy(inv.args.resp.err)

\* message is an f-string with value among its replacement fields
MessageContains(message, value) ==
    /\ message.t = "fstr"
    /\ \E i \in 1..Len(message.v) : message.v[i] = Fmt(value)
\* message starts with literal text, which says what was attempted
MessageNamesOperation(message) ==
    /\ message.t = "fstr"
    /\ Len(message.v) > 0
    /\ message.v[1].t = "lit"

C12_RemoteErrorNamesOperationAndTarget ==
    (last.tool \in IdentifierTools /\ RemoteFailed(last))
    => /\ last.out.kind = "raise"
       /\ MessageNamesOperation(last.out.val)
       /\ MessageContains(last.out.val, last.args.resp.err)
       /\ MessageContains(last.out.val, last.args.id)

(***************************************************************************)
(* C13.  Every tool invocation issues at most one remote operation: none   *)
(* when it ends in a validation error or is left pending by the gate,      *)
(* exactly one otherwise.  When that operation reports an error the tool   *)
(* raises at once: the one call is all the client has seen, there is no    *)
(* second attempt and no compensating call.                                *)
(***************************************************************************)
\* inv was stopped by validation or by the confirmation gate
StoppedBeforeRemote(inv) ==
    \/ inv.out.kind = "raise" /\ inv.out.exc \in {"ValueError", "TypeError", "AttributeError"}
    \/ inv.tool \in DestructiveTools /\ IsPending(inv)

DeleteTools ==
    {"zia_delete_network_service", "zia_delete_network_svc_group", "zia_delete_url_category"}

C14_DeleteStatusNamesTarget ==
    (/\ last.tool \in DeleteTools
     /\ Confirmed(last)
     /\ Truthy(last.args.id)
     /\ ~Truthy(last.args.resp.err))
    => /\ last.out.kind = "return"
       /\ last.calls = <<ExpectedDelete(last)>>
       /\ MessageNamesOperation(last.out.val)
       /\ MessageContains(last.out.val, last.args.id)
       /\ \A i \in 1..Len(last.out.val.v) :
            last.out.val.v[i].t = "lit" \/ last.out.val.v[i] = py_str(last.args.id)

\* the group "12345" deleted after confirmation
C14_Witness ==
    /\ last.tool = "zia_delete_network_svc_group"
    /\ Confirmed(last)
    /\ last.args.id = PyStr(Chars12345)
    /\ last.out = Return(FString(<<Lit("Network service group "), PyStr(Chars12345),
                                   Lit(" deleted successfully")>>))
    /\ Len(calls) = 1

(***************************************************************************)
(* C15.  zia_create_network_service with a non-empty name and a non-empty  *)
(* list of valid port definitions (given natively or as JSON text) issues  *)
(* exactly one add call whose ports argument holds the definitions in      *)
(* input order, each as a tuple of the values as given (protocol case      *)
(* kept, port values not range-checked), and returns the created resource  *)
(* as a dict when the call reports no error.                               *)
(***************************************************************************)
ValidPortDefinition(d) ==
    /\ IsPortDefinition(d)
    /\ ~ViolatesPortRule(d)
    /\ isinstance(d.v[2], "str")

C15_CreatePassesPortsUnchanged ==
    (/\ last.tool = "zia_create_network_service"
     /\ Truthy(last.args.name)
     /\ SuppliedList(last.args.ports) # <<>>
     /\ \A i \in 1..Len(SuppliedList(last.args.ports)) :
            ValidPortDefinition(SuppliedList(last.args.ports)[i]))
    => LET defs == SuppliedList(last.args.ports)
       IN  /\ Len(last.calls) = 1
           /\ last.calls[1].op = "add_network_service"
           /\ last.calls[1].args.name = last.args.name
           /\ last.calls[1].args.ports = PyList([i \in 1..Len(defs) |-> PyTuple(defs[i].v)])
           /\ ~Truthy(last.args.resp.err) => last.out = Return(as_dict(last.args.resp.payload))

\* two definitions given as JSON text, one with protocol TCP in capitals
C15_Witness ==
    /\ last.tool = "zia_create_network_service"
    /\ isinstance(last.args.ports, "str")
    /\ Len(SuppliedList(last.args.ports)) = 2
    /\ Len(last.calls) = 1
    /\ last.calls[1].args.ports.v[1] = PyTuple(PortWebRange.v)
    /\ last.calls[1].args.ports.v[2] = PyTuple(PortDns.v)
    /\ last.out.kind = "return"

(***************************************************************************)
(* C16.  zia_list_network_apps with a non-empty search string (and a       *)
(* locale that is absent or in the supported set) issues exactly one list  *)
(* call whose query parameters hold search as given and nothing the        *)
(* caller did not supply; with no filter supplied the one list call is     *)
(* issued with no query parameters.                                        *)
(***************************************************************************)
C16_SearchPassedThrough ==
    (/\ last.tool = "zia_list_network_apps"
     /\ ~(Truthy(last.args.locale) /\ last.args.locale.v \notin valid_locales))
    => /\ Len(last.calls) = 1
       /\ last.calls[1].op = "list_network_apps"
       /\ IF ~Truthy(last.args.search) /\ ~Truthy(last.args.locale)
          THEN last.calls[1].args.query_params = PyNone
          ELSE LET sent == last.calls[1].args.query_params
               IN  /\ isinstance(sent, "dict")
                   /\ DOMAIN sent.v = {f \in {"search", "locale"} : Truthy(last.args[f])}
                   /\ \A f \in DOMAIN sent.v : sent.v[f] = last.args[f]

\* search="ICMP" alone
C16_Witness ==
    /\ last.tool = "zia_list_network_apps"
    /\ last.args.search = PyStr(<<"I", "C", "M", "P">>)
    /\ last.args.locale = PyNone
    /\ last.calls = <<RemoteCall("list_network_apps",
                        [query_params |-> PyDict([search |-> PyStr(<<"I", "C", "M", "P">>)])])>>
    /\ last.out.kind = "return"

(***************************************************************************)
(* C17.  In zia_list_network_services and zia_list_network_apps a          *)
(* supplied protocol or locale outside the fixed set of that filter fails  *)
(* with a validation error that names the set, and no list call is         *)
(* issued.  (A protocol counts as inside the set in any letter case.)      *)
(***************************************************************************)
FilteredListTools == {"zia_list_network_services", "zia_list_network_apps"}

ProtocolOutsideSet(inv) ==
    /\ inv.tool = "zia_list_network_services"
    /\ Truthy(inv.args.protocol)
    /\ upper(inv.args.protocol).v \notin valid_protocols
LocaleOutsideSet(inv) ==
    /\ inv.tool \in FilteredListTools
    /\ Truthy(inv.args.locale)
    /\ inv.args.locale.v \notin valid_locales

\* message is an f-string that lists the members of set
MessageNamesSet(message, set) ==
    /\ message.t = "fstr"
    /\ \E i \in 1..Len(message.v) : message.v[i] = [t |-> "joined", v |-> set]

C17_FilterOutsideSetRejected ==
    /\ ProtocolOutsideSet(last)
         => /\ IsValidationError(last)
            /\ MessageNamesSet(last.out.val, valid_protocols)
            /\ last.calls = <<>>
    /\ LocaleOutsideSet(last)
         => /\ IsValidationError(last)
            /\ ProtocolOutsideSet(last) \/ MessageNamesSet(last.out.val, valid_locales)
            /\ last.calls = <<>>

(***************************************************************************)
(* C18.  As claimed: every sequence-typed field that reaches a remote      *)
(* operation (ports, service_ids, user_ids, cloud_apps, and the urls,      *)
(* keywords and ip_ranges of the URL-category tools) is a native sequence  *)
(* and never a string, whatever encoding the caller gave it in.            *)
(***************************************************************************)
SequenceFieldNames ==
    {"ports", "service_ids", "cloud_apps", "urls", "keywords", "ip_ranges",
     "keywords_retaining_parent_category", "ip_ranges_retaining_parent_category",
     "db_categorized_urls"}
UrlCategoryWriteTools ==
    {"zia_create_url_category", "zia_update_url_category", "zia_add_urls_to_category",
     "zia_remove_urls_from_category"}

\* the user ids a list_devices call carries, if it carries any
SendsUserIds(call) ==
    /\ call.op = "list_devices"
    /\ isinstance(call.args.query_params, "dict")
    /\ "userIds" \in DOMAIN call.args.query_params.v

C18_Original ==
    \A k \in 1..Len(last.calls) :
        /\ \A f \in SequenceFieldNames \cap DOMAIN last.calls[k].args :
                ~isinstance(last.calls[k].args[f], "str")
        /\ SendsUserIds(last.calls[k])
                => ~isinstance(last.calls[k].args.query_params.v["userIds"], "str")

(***************************************************************************)
(* C18, amended.  ports, service_ids, cloud_apps and the urls of           *)
(* zia_url_lookup reach the remote operation as a native list (or, in the  *)
(* two update tools, as nothing when the field was omitted or empty),      *)
(* never as a string, in either encoding.  user_ids reaches list_devices   *)
(* as one string, userIds, the ids joined by commas in input order.  The   *)
(* URL-category tools do not normalise urls, keywords or ip_ranges: each   *)
(* field that is sent is sent exactly as the caller gave it.               *)
(***************************************************************************)
C18_SequenceFieldsAsSent ==
    \A k \in 1..Len(last.calls) :
        LET sent == last.calls[k].args
        IN  /\ last.tool \in SequenceTools \ {"zia_list_devices"} =>
                \A f \in SequenceFieldNames \cap DOMAIN sent :
                    /\ sent[f].t \in {"list", "none"}
                    /\ sent[f] = PyNone =>
                            /\ last.tool = "zia_update_network_service"
                            /\ ~Truthy(SequenceArgument(last))
                    /\ isinstance(sent[f], "list") =>
                            Len(sent[f].v) = Len(SuppliedList(SequenceArgument(last)))
                                             + Len(IF IsNotJson(SequenceArgument(last))
                                                   THEN split_and_strip(SequenceArgument(last)).v
                                                   ELSE <<>>)
            /\ (last.tool = "zia_list_devices" /\ last.args.user_ids # PyNone) =>
                /\ SendsUserIds(last.calls[k])
                /\ sent.query_params.v["userIds"] =
                     PyStr(JoinChars(<<",">>,
                            [i \in 1..Len(SuppliedList(last.args.user_ids)) |->
                                py_str(SuppliedList(last.args.user_ids)[i]).v]))
            /\ (last.tool = "zia_list_devices" /\ last.args.user_ids = PyNone) =>
                ~SendsUserIds(last.calls[k])
            /\ last.tool \in UrlCategoryWriteTools =>
                \A f \in SequenceFieldNames \cap DOMAIN sent : sent[f] = last.args[f]

\* user ids given as the JSON text [15, 7] reach list_devices as "15,7"
C18_Witness ==
    /\ last.tool = "zia_list_devices"
    /\ last.args.user_ids = PyStr(<<"[", "1", "5", ",", " ", "7", "]">>)
    /\ Len(last.calls) = 1
    /\ last.calls[1].args.query_params.v["userIds"] = PyStr(<<"1", "5", ",", "7">>)

(***************************************************************************)
(* C19.  A mandatory sequence field that is empty after normalisation      *)
(* (ports of zia_create_network_service, service_ids of                    *)
(* zia_create_network_svc_group, cloud_apps of                             *)
(* zia_list_cloud_app_control_actions, urls of zia_url_lookup), given as   *)
(* an empty native list, as the text "[]" or as a text of only commas and  *)
(* whitespace, fails with a validation error before the client is          *)
(* resolved and issues no remote call.                                     *)
(***************************************************************************)
MandatorySequenceTools ==
    {"zia_create_network_service", "zia_create_network_svc_group",
     "zia_list_cloud_app_control_actions", "zia_url_lookup"}

OnlyCommasAndWhitespace(value) ==
    /\ isinstance(value, "str")
    /\ \A i \in 1..Len(value.v) : value.v[i] \in Whitespace \cup {","}
EmptySequenceInput(value) ==
    \/ value = PyList(<<>>)
    \/ value = PyStr(<<"[", "]">>)
    \/ OnlyCommasAndWhitespace(value)

C19_EmptyMandatorySequenceRejected ==
    (last.tool \in MandatorySequenceTools /\ EmptySequenceInput(SequenceArgument(last)))
    => /\ IsValidationError(last)
       /\ last.calls = <<>>
       /\ last.resolved = 0
       /\ calls = <<>>

\* cloud_apps given as a comma between blanks
C19_Witness ==
    /\ last.tool = "zia_list_cloud_app_control_actions"
    /\ last.args.cloud_apps = PyStr(<<" ", ",">>)
    /\ last.out = Raise("ValueError", Lit("cloud_apps cannot be empty"))
    /\ calls = <<>>

(***************************************************************************)
(* C20.  zia_list_devices, once its arguments pass validation, issues      *)
(* exactly one list call, whatever the number of results: page and         *)
(* page_size are query parameters of that call (page, pageSize) equal to   *)
(* the values supplied, and absent from it when not supplied; no further   *)
(* page is fetched.                                                        *)
(***************************************************************************)
\* the query parameters of a list call, as a mapping (empty when None)
QueryParamsSent(call) ==
    IF isinstance(call.args.query_params, "dict") THEN call.args.query_params.v ELSE <<>>
\* parameter key of call qp is value, or absent when value was not supplied
PassedThrough(qp, key, value) ==
    IF value = PyNone THEN key \notin DOMAIN qp
    ELSE key \in DOMAIN qp /\ qp[key] = value

C20_PaginationPassedThrough ==
    (last.tool = "zia_list_devices" /\ ~IsValidationError(last))
    => /\ Len(last.calls) = 1
       /\ calls = last.calls
       /\ last.calls[1].op = "list_devices"
       /\ PassedThrough(QueryParamsSent(last.calls[1]), "page", last.args.page)
       /\ PassedThrough(QueryParamsSent(last.calls[1]), "pageSize", last.args.page_size)
       /\ ~Truthy(last.args.resp.err) => last.out = Return(as_dict_all(last.args.resp.payload))

\* page 2 of size 1, answered with more results than the page size
C20_Witness ==
    /\ last.tool = "zia_list_devices"
    /\ last.args.page = PyInt(2)
    /\ last.args.page_size = PyInt(1)
    /\ last.args.resp.payload = PyList(<<Resource(2), Resource(1), Resource(2)>>)
    /\ last.out.kind = "return"
    /\ Len(calls) = 1
    /\ calls[1].args.query_params.v["page"] = PyInt(2)
    /\ calls[1].args.query_params.v["pageSize"] = PyInt(1)
    /\ Len(last.out.val.v) = 3

CommaAt(s, k) ==
    LET commas == {i \in 1..Len(s) : s[i] = ","}
    IN  IF k = 0 THEN 0
        ELSE IF k > Cardinality(commas) THEN Len(s) + 1
        ELSE CHOOSE i \in commas : Cardinality({j \in commas : j <= i}) = k
\* p from its first to its last character that is not whitespace
Trimmed(p) ==
    LET solid == {i \in 1..Len(p) : p[i] \notin Whitespace}
    IN  IF solid = {} THEN <<>>
        ELSE SubSeq(p, CHOOSE i \in solid : \A j \in solid : i <= j,
                       CHOOSE i \in solid : \A j \in solid : j <= i)
\* the non-empty trimmed tokens of the comma-separated text s, in order
CommaTokens(s) ==
    LET n == Cardinality({i \in 1..Len(s) : s[i] = ","}) + 1
        tokens == [k \in 1..n |-> Trimmed(SubSeq(s, CommaAt(s, k - 1) + 1, CommaAt(s, k) - 1))]
        kept == SelectSeq(tokens, LAMBDA t : t # <<>>)
    IN  [k \in 1..Len(kept) |-> PyStr(kept[k])]
CommaSplitTools == {"zia_list_cloud_app_control_actions", "zia_url_lookup"}
\* the list the remote call of a comma-split tool carries
SentList(call) == IF call.op = "lookup" THEN call.args.urls ELSE call.args.cloud_apps

C22_CommaSeparatedTokensSent ==
    (last.tool \in CommaSplitTools /\ IsNotJson(SequenceArgument(last)))
    => LET tokens == CommaTokens(SequenceArgument(last).v)
       IN  IF tokens = <<>> THEN last.calls = <<>>
           ELSE /\ Len(last.calls) = 1
                /\ SentList(last.calls[1]) = PyList(tokens)

\* "b.co, a.co" is looked up as the two URLs b.co and a.co, in that order
C22_Witness ==
    /\ last.tool = "zia_url_lookup"
    /\ last.args.urls = PyStr(<<"b", ".", "c", "o", ",", " ", "a", ".", "c", "o">>)
    /\ Len(last.calls) = 1
    /\ last.calls[1].args.urls = PyList(<<PyStr(<<"b", ".", "c", "o">>), PyStr(<<"a", ".", "c", "o">>)>>)

(***************************************************************************)
(* C23.  Port validation stops at the first fault.  When the ports list of *)
(* zia_create_network_service or zia_update_network_service holds invalid  *)
(* definitions, the error raised is the one of the first invalid           *)
(* definition in list order, and for that definition it is the length      *)
(* error if it is too short, else the direction error if its direction is  *)
(* wrong, else the protocol error; no remote call is issued.               *)
(***************************************************************************)
\* the error of the first rule that port definition d breaks
FirstRuleBroken(d) ==
    IF Len(d.v) < 3
    THEN Raise("ValueError", FString(<<Lit("Invalid port tuple "), Fmt(PyTuple(d.v)),
                                       PortTupleFormat>>))
    ELSE IF d.v[1] \notin {PyStr(<<"s", "r", "c">>), PyStr(<<"d", "e", "s", "t">>)}
    THEN Raise("ValueError", FString(<<Lit("Invalid direction '"), Fmt(d.v[1]),
                                       Lit("'. Must be 'src' or 'dest'.")>>))
    ELSE Raise("ValueError", FString(<<Lit("Invalid protocol '"), Fmt(d.v[2]),
                                       Lit("'. Must be 'tcp' or 'udp'.")>>))
\* the identifier (update only) and the name are there, so ports is looked at
ReachesPortValidation(inv) ==
    /\ inv.tool \in PortTools
    /\ Truthy(inv.args.name)
    /\ inv.tool = "zia_update_network_service" => Truthy(inv.args.id)

C23_FirstInvalidPortReported ==
    (/\ ReachesPortValidation(last)
     /\ PortFieldsAreStrings(SuppliedList(last.args.ports))
     /\ \E i \in 1..Len(SuppliedList(last.args.ports)) :
            ViolatesPortRule(SuppliedList(last.args.ports)[i]))
    => LET defs == SuppliedList(last.args.ports)
           first == CHOOSE i \in 1..Len(defs) :
                        /\ ViolatesPortRule(defs[i])
                        /\ \A j \in 1..(i - 1) : ~ViolatesPortRule(defs[j])
       IN  /\ last.out = FirstRuleBroken(defs[first])
           /\ last.calls = <<>>

\* a wrong protocol followed by a wrong direction: the protocol error is raised
C23_Witness ==
    /\ last.tool = "zia_create_network_service"
    /\ last.args.name = PyStr(<<"n">>)
    /\ last.args.ports = PyList(<<PortBadProtocol, PortBadDirection>>)
    /\ last.out.kind = "raise"
    /\ last.out = FirstRuleBroken(PortBadProtocol)

(***************************************************************************)
(* C24.  The service_ids list that zia_create_network_svc_group and        *)
(* zia_update_network_svc_group send to the remote has as many elements as *)
(* the caller's list (native or JSON text), in the same order, and each    *)
(* element is a string: the supplied string itself, or the decimal text of *)
(* the supplied integer.                                                   *)
(***************************************************************************)
GroupWriteTools == {"zia_create_network_svc_group", "zia_update_network_svc_group"}

C24_ServiceIdsSentAsStrings ==
    last.tool \in GroupWriteTools
    => \A k \in 1..Len(last.calls) :
          "service_ids" \in DOMAIN last.calls[k].args
          => LET sent == last.calls[k].args.service_ids
                 given == SuppliedList(last.args.service_ids)
             IN  /\ isinstance(sent, "list")
                 /\ Len(sent.v) = Len(given)
                 /\ \A i \in 1..Len(given) :
                        /\ isinstance(sent.v[i], "str")
                        /\ isinstance(given[i], "str") => sent.v[i] = given[i]
                        /\ isinstance(given[i], "int") =>
                                /\ CharsToInt(sent.v[i].v, 0) = given[i].v
                                /\ sent.v[i] = py_str(given[i])

\* the integers 15 and 7 reach the remote as the strings "15" and "7"
C24_Witness ==
    /\ last.tool = "zia_create_network_svc_group"
    /\ last.args.service_ids = PyList(<<PyInt(15), PyInt(7)>>)
    /\ Len(last.calls) = 1
    /\ last.calls[1].args.service_ids = PyList(<<PyStr(<<"1", "5">>), PyStr(<<"7">>)>>)

(***************************************************************************)
(* C25.  An update of a network service or of a network service group      *)
(* that omits ports / service_ids issues its one remote update call        *)
(* without a replacement list (ports is None; no service_ids argument), so *)
(* the remote keeps what it has.  A replacement list is in the call only   *)
(* when the caller supplied a non-empty value, and it is then the list     *)
(* the caller supplied.                                                    *)
(***************************************************************************)
SequenceUpdateTools == {"zia_update_network_service", "zia_update_network_svc_group"}
\* the update call carries no replacement for the sequence field
NoReplacement(call) ==
    IF call.op = "update_network_service" THEN call.args.ports = PyNone
    ELSE "service_ids" \notin DOMAIN call.args
\* the replacement list an update call carries
Replacement(call) ==
    IF call.op = "update_network_service" THEN call.args.ports ELSE call.args.service_ids

C25_OmittedSequencePreserved ==
    (last.tool \in SequenceUpdateTools /\ ~StoppedBeforeRemote(last))
    => /\ Len(last.calls) = 1
       /\ calls = last.calls
       /\ last.calls[1].op \in {"update_network_service", "update_network_svc_group"}
       /\ SequenceArgument(last) = PyNone => NoReplacement(last.calls[1])
       /\ ~NoReplacement(last.calls[1])
            => /\ Truthy(SequenceArgument(last))
               /\ isinstance(Replacement(last.calls[1]), "list")
               /\ Len(Replacement(last.calls[1]).v) = Len(SuppliedList(SequenceArgument(last)))

\* a rename of service 12345 that says nothing about ports
C25_Witness ==
    /\ last.tool = "zia_update_network_service"
    /\ last.args.id = PyStr(Chars12345)
    /\ last.args.ports = PyNone
    /\ Len(last.calls) = 1
    /\ last.calls[1].args.ports = PyNone
    /\ last.calls[1].args.name = last.args.name

(***************************************************************************)
(* C26.  zia_list_devices rejects a page below 1 and a page_size below 1   *)
(* or above 1000 with a validation error and issues no remote call; with   *)
(* well-formed user_ids, the error is the one of the page or of the page   *)
(* size, and every other page and page_size is accepted and forwarded in   *)
(* the query parameters of the one list call.                              *)
(***************************************************************************)
PageOutOfRange(inv) == inv.args.page # PyNone /\ inv.args.page.v < 1
PageSizeOutOfRange(inv) ==
    /\ inv.args.page_size # PyNone
    /\ inv.args.page_size.v \notin 1..MaxPageSize
\* user_ids is absent, a native list or the JSON text of a list
UserIdsWellFormed(inv) ==
    \/ inv.args.user_ids = PyNone
    \/ isinstance(inv.args.user_ids, "list")
    \/ IsJsonList(inv.args.user_ids)

C26_PageBoundsEnforced ==
    last.tool = "zia_list_devices"
    => /\ (PageOutOfRange(last) \/ PageSizeOutOfRange(last))
            => (IsValidationError(last) /\ last.calls = <<>> /\ calls = <<>>)
       /\ (UserIdsWellFormed(last) /\ PageOutOfRange(last))
            => last.out = Raise("ValueError", Lit("page must be 1 or greater"))
       /\ (UserIdsWellFormed(last) /\ ~PageOutOfRange(last) /\ PageSizeOutOfRange(last))
            => last.out = Raise("ValueError", Lit("page_size must be between 1 and 1000"))
       /\ (UserIdsWellFormed(last) /\ ~PageOutOfRange(last) /\ ~PageSizeOutOfRange(last))
            => /\ Len(last.calls) = 1
               /\ last.calls[1].op = "list_devices"
               /\ PassedThrough(QueryParamsSent(last.calls[1]), "page", last.args.page)
               /\ PassedThrough(QueryParamsSent(last.calls[1]), "pageSize",
                                 last.args.page_size)

\* the largest page size allowed is forwarded
C26_Witness ==
    /\ last.tool = "zia_list_devices"
    /\ last.args.page = PyInt(1)
    /\ last.args.page_size = PyInt(MaxPageSize)
    /\ Len(last.calls) = 1
    /\ QueryParamsSent(last.calls[1])["pageSize"] = PyInt(1000)
    /\ QueryParamsSent(last.calls[1])["page"] = PyInt(1)

(***************************************************************************)
(* C27.  The query parameters of zia_list_devices hold what was supplied   *)
(* and nothing else: userIds is there exactly when user_ids was given, and *)
(* is then the string forms of the ids joined by commas in input order;    *)
(* includeAll, page and pageSize are there exactly when include_all, page  *)
(* and page_size were given, with the value given; name is there exactly   *)
(* when a non-empty name was given.                                        *)
(***************************************************************************)
DeviceQueryKeys == {"name", "userIds", "includeAll", "page", "pageSize"}
\* text is the ids in their string form, joined by commas in order
IsCommaJoinOf(text, ids) ==
    /\ isinstance(text, "str")
    /\ IF ids = <<>> THEN text.v = <<>>
       ELSE SplitChars(text.v, ",", <<>>, <<>>) = [i \in 1..Len(ids) |-> py_str(ids[i]).v]

C27_DeviceQueryHoldsWhatWasSupplied ==
    (last.tool = "zia_list_devices" /\ Len(last.calls) = 1)
    => LET qp == QueryParamsSent(last.calls[1])
       IN  /\ DOMAIN qp \subseteq DeviceQueryKeys
           /\ "userIds" \in DOMAIN qp <=> last.args.user_ids # PyNone
           /\ "userIds" \in DOMAIN qp
                => IsCommaJoinOf(qp["userIds"], SuppliedList(last.args.user_ids))
           /\ PassedThrough(qp, "includeAll", last.args.include_all)
           /\ PassedThrough(qp, "page", last.args.page)
           /\ PassedThrough(qp, "pageSize", last.args.page_size)
           /\ "name" \in DOMAIN qp <=> Truthy(last.args.name)
           /\ "name" \in DOMAIN qp => qp["name"] = last.args.name

\* the ids 15 and 7, given as integers, are sent as "15,7"; no name was given
C27_Witness ==
    /\ last.tool = "zia_list_devices"
    /\ last.args.user_ids = PyList(<<PyInt(15), PyInt(7)>>)
    /\ last.args.name = PyNone
    /\ Len(last.calls) = 1
    /\ QueryParamsSent(last.calls[1])["userIds"] = PyStr(<<"1", "5", ",", "7">>)
    /\ "name" \notin DOMAIN QueryParamsSent(last.calls[1])

(***************************************************************************)
(* C28.  As claimed: in every get, update and delete tool an identifier    *)
(* that is the empty string, None or 0 fails with a validation error and   *)
(* no remote call, and every other identifier is forwarded to the remote   *)
(* (in whatever form: as given, as its text or as its number) and is never *)
(* itself the reason of a failure.                                         *)
(***************************************************************************)
GetTools ==
    {"zia_get_network_service", "zia_get_network_svc_group", "zia_get_network_app",
     "zia_get_url_category"}
UpdateTools ==
    {"zia_update_network_service", "zia_update_network_svc_group", "zia_update_url_category"}
\* the identifier argument of a remote call
IdentifierSent(call) ==
    CASE call.op = "update_network_service" -> call.args.service_id
      [] call.op = "update_network_svc_group" -> call.args.group_id
      [] call.op \in {"get_category", "update_url_category", "delete_category"} ->
            call.args.category_id
      [] OTHER -> call.args.arg0
\* the forms in which an identifier can be said to be forwarded
FormsOf(id) ==
    {id, py_str(id)} \cup (IF py_int(id).ok THEN {PyInt(py_int(id).val)} ELSE {})

IdentifierForm(inv) ==
    CASE inv.tool = "zia_update_network_service" -> py_str(inv.args.id)
      [] inv.tool = "zia_update_network_svc_group" -> PyInt(py_int(inv.args.id).val)
      [] OTHER -> inv.args.id

ListReturningTools ==
    {"zia_list_network_services", "zia_list_network_svc_groups", "zia_list_network_apps",
     "zia_list_device_groups", "zia_list_devices", "zia_list_devices_lite",
     "zia_list_url_categories", "zia_url_lookup", "zia_list_cloud_app_control_actions"}
\* the remote was asked and answered with a list and no error
AnsweredWithList(inv) ==
    /\ Len(inv.calls) = 1
    /\ ~Truthy(inv.args.resp.err)
    /\ isinstance(inv.args.resp.payload, "list")
\* m is the mapping that stands for payload element e
IsMappingFormOf(m, e) ==
    /\ isinstance(m, "dict")
    /\ IF e.t = "object" THEN m = as_dict(e) ELSE m = e

C29_Original ==
    (last.tool \in ListReturningTools /\ AnsweredWithList(last))
    => /\ last.out.kind = "return"
       /\ isinstance(last.out.val, "list")
       /\ Len(last.out.val.v) = Len(last.args.resp.payload.v)
       /\ \A i \in 1..Len(last.args.resp.payload.v) :
            IsMappingFormOf(last.out.val.v[i], last.args.resp.payload.v[i])

(***************************************************************************)
(* C29, amended.  Every list-returning tool that gets a payload and no     *)
(* error returns a sequence as long as the payload and in its order, with  *)
(* nothing filtered, sorted or removed.  The seven list tools return the   *)
(* as_dict() mapping of each element; zia_url_lookup returns the as_dict() *)
(* mapping of an element that is an object and an element that is a dict   *)
(* as it is; zia_list_cloud_app_control_actions returns the action names   *)
(* as the remote gave them, not mappings, and an empty list when the       *)
(* remote gave nothing.                                                    *)
(***************************************************************************)
C29_ListReturnedInPayloadOrder ==
    /\ (last.tool \in ListReturningTools /\ AnsweredWithList(last))
        => /\ last.out.kind = "return"
           /\ isinstance(last.out.val, "list")
           /\ Len(last.out.val.v) = Len(last.args.resp.payload.v)
           /\ \A i \in 1..Len(last.args.resp.payload.v) :
                IF last.tool = "zia_list_cloud_app_control_actions"
                THEN last.out.val.v[i] = last.args.resp.payload.v[i]
                ELSE IsMappingFormOf(last.out.val.v[i], last.args.resp.payload.v[i])
    /\ (/\ last.tool = "zia_list_cloud_app_control_actions"
        /\ Len(last.calls) = 1
        /\ ~Truthy(last.args.resp.err)
        /\ last.args.resp.payload = PyNone)
        => last.out = Return(PyList(<<>>))

\* three devices, one of them listed twice, come back as three mappings in order
C29_Witness ==
    /\ last.tool = "zia_list_devices_lite"
    /\ last.args.resp.payload = PyList(<<Resource(2), Resource(1), Resource(2)>>)
    /\ last.out = Return(PyList(<<as_dict(Resource(2)), as_dict(Resource(1)),
                                  as_dict(Resource(2))>>))

====
